---- MODULE Spec2Model ----
(***************************************************************************)
(* A model of @dreamer/middleware (src/mod.ts): the condition matcher, the *)
(* MiddlewareChain dispatcher with its continuation-passing execute, the   *)
(* error-handler list and the per-handler statistics.                      *)
(*                                                                         *)
(* JavaScript strings are TLA+ strings, an optional value (x?: T) is a     *)
(* sequence of length 0 (undefined) or 1, and a handler function is a      *)
(* record of its own .name and of the script its body runs.                *)
(***************************************************************************)
EXTENDS Integers, Sequences, FiniteSets, TLC

VARIABLES
  chains,   \* the MiddlewareChain objects: object id -> fields of the instance
  calls,    \* the execute calls made so far, each with its closure state and frames
  log,      \* what the handlers observed, in order (their side effects)
  ret,      \* outcome of the last synchronous API call
  now,      \* Date.now()
  manager   \* the MiddlewareManager object and the service container it was given

vars == <<chains, calls, log, ret, now, manager>>

-----------------------------------------------------------------------------
(* Bounds *)

MaxMiddlewares == 2
MaxErrorMiddlewares == 2
MaxCalls == 1
MaxTime == 2
MaxChains == 4

-----------------------------------------------------------------------------
(* Optional values and strings *)

Undefined == <<>>
Some(x) == <<x>>
IsDefined(o) == o # <<>>

Upper == "ABCDEFGHIJKLMNOPQRSTUVWXYZ"
Lower == "abcdefghijklmnopqrstuvwxyz"

\* one character of String.prototype.toLowerCase
LowerChar(c) ==
  IF \E i \in 1..Len(Upper) : SubSeq(Upper, i, i) = c
    THEN LET i == CHOOSE j \in 1..Len(Upper) : SubSeq(Upper, j, j) = c
         IN SubSeq(Lower, i, i)
    ELSE c

RECURSIVE toLowerCase(_)
toLowerCase(s) ==
  IF Len(s) = 0 THEN ""
  ELSE LowerChar(SubSeq(s, 1, 1)) \o toLowerCase(SubSeq(s, 2, Len(s)))

startsWith_wholeString(s, p) == s = p

startsWith(s, p) == Len(p) <= Len(s) /\ SubSeq(s, 1, Len(p)) = p

-----------------------------------------------------------------------------
(* Regular expressions: an optional ^ followed by literal characters, with *)
(* the g and y flags and the lastIndex that RegExp.prototype.test keeps.   *)

RegExpAnchored(re) == Len(re.s) > 0 /\ SubSeq(re.s, 1, 1) = "^"
RegExpLiteral(re) == IF RegExpAnchored(re) THEN SubSeq(re.s, 2, Len(re.s)) ELSE re.s

\* does the pattern match the string at 0-based index i
RegExpMatchAt(re, str, i) ==
  /\ RegExpAnchored(re) => i = 0
  /\ i + Len(RegExpLiteral(re)) <= Len(str)
  /\ SubSeq(str, i + 1, i + Len(RegExpLiteral(re))) = RegExpLiteral(re)

\* RegExpBuiltinExec: where the search starts and which indices it tries
RegExpStart(re) == IF re.g \/ re.y THEN re.lastIndex ELSE 0
RegExpTries(re, str) ==
  IF RegExpStart(re) > Len(str) THEN {}
  ELSE IF re.y THEN {RegExpStart(re)}
  ELSE RegExpStart(re)..Len(str)
RegExpHits(re, str) == {i \in RegExpTries(re, str) : RegExpMatchAt(re, str, i)}

\* RegExp.prototype.test: the result
RegExpTest(re, str) == RegExpHits(re, str) # {}

\* RegExp.prototype.test: the lastIndex it leaves on the object
RegExpLastIndex(re, str) ==
  IF ~(re.g \/ re.y) THEN re.lastIndex
  ELSE IF RegExpHits(re, str) = {} THEN 0
  ELSE LET i == CHOOSE j \in RegExpHits(re, str) :
                   \A k \in RegExpHits(re, str) : j <= k
       IN i + Len(RegExpLiteral(re))

-----------------------------------------------------------------------------
(* MiddlewareCondition                                                     *)
(*   path   : [t, s, g, y, lastIndex], t in undefined/string/regexp/       *)
(*            function; s is the string, the pattern or the function       *)
(*   method : [t, s, a], t in undefined/string/array/function              *)
(*   match  : optional function                                            *)

NoPath == [t |-> "undefined", s |-> "", g |-> FALSE, y |-> FALSE, lastIndex |-> 0]
PathString(s) == [NoPath EXCEPT !.t = "string", !.s = s]
PathRegExp(s, g, y) == [NoPath EXCEPT !.t = "regexp", !.s = s, !.g = g, !.y = y]
PathFunction(f) == [NoPath EXCEPT !.t = "function", !.s = f]

NoMethod == [t |-> "undefined", s |-> "", a |-> <<>>]
MethodString(s) == [NoMethod EXCEPT !.t = "string", !.s = s]
MethodArray(a) == [NoMethod EXCEPT !.t = "array", !.a = a]
MethodFunction(f) == [NoMethod EXCEPT !.t = "function", !.s = f]

Condition(p, m, f) == [path |-> p, method |-> m, match |-> f]

\* the predicates the callers pass as path, method and match functions
PathFn(f, path) ==
  CASE f = "longerThan10" -> Len(path) > 10
    [] f = "isRoot" -> path = "/"
    [] OTHER -> FALSE

MethodFn(f, method) ==
  CASE f = "isGET" -> method = "GET"
    [] OTHER -> FALSE

MatchFn(f, ctx) ==
  CASE f = "pathIsSpecial" -> ctx.path = Some("/special")
    [] f = "noError" -> ~ctx.error
    [] OTHER -> FALSE

\* the path constraint of matchCondition
pathMatches(condition, ctx) ==
  IF condition.path.t # "undefined" /\ IsDefined(ctx.path)
    THEN CASE condition.path.t = "string" ->
                startsWith(ctx.path[1], condition.path.s)
           [] condition.path.t = "regexp" ->
                RegExpTest(condition.path, ctx.path[1])
           [] condition.path.t = "function" ->
                PathFn(condition.path.s, ctx.path[1])
           [] OTHER -> TRUE
    ELSE TRUE

\* the method constraint of matchCondition
methodMatches(condition, ctx) ==
  IF condition.method.t # "undefined" /\ IsDefined(ctx.method)
    THEN CASE condition.method.t = "string" ->
                toLowerCase(ctx.method[1]) = toLowerCase(condition.method.s)
           [] condition.method.t = "array" ->
                \E i \in 1..Len(condition.method.a) :
                  toLowerCase(condition.method.a[i]) = toLowerCase(ctx.method[1])
           [] condition.method.t = "function" ->
                MethodFn(condition.method.s, ctx.method[1])
           [] OTHER -> TRUE
    ELSE TRUE

\* the custom constraint of matchCondition
customMatches(condition, ctx) ==
  IF IsDefined(condition.match) THEN MatchFn(condition.match[1], ctx) ELSE TRUE

matchCondition(condition, ctx) ==
  /\ pathMatches(condition, ctx)
  /\ methodMatches(condition, ctx)
  /\ customMatches(condition, ctx)

\* the condition object after matchCondition ran on it: test() moved lastIndex
conditionAfterMatch(condition, ctx) ==
  IF condition.path.t = "regexp" /\ IsDefined(ctx.path)
    THEN [condition EXCEPT
            !.path.lastIndex = RegExpLastIndex(condition.path, ctx.path[1])]
    ELSE condition

\* MiddlewareChain.matches
matches(registration, ctx) ==
  IF registration.condition = Undefined THEN TRUE
  ELSE matchCondition(registration.condition[1], ctx)

registrationAfterMatch(registration, ctx) ==
  IF registration.condition = Undefined THEN registration
  ELSE [registration EXCEPT
          !.condition = Some(conditionAfterMatch(registration.condition[1], ctx))]

-----------------------------------------------------------------------------
(* Handlers.  A handler function is [fname, beh]: its own .name ("" for an *)
(* anonymous function) and the name of the script its body runs.  A script *)
(* is a sequence of steps; the handler may suspend between two steps.      *)
(*   before / after : push a marker (a side effect the caller observes)    *)
(*   next           : await next()                                         *)
(*   setError       : ctx.error = {...}                                    *)
(*   setPath        : ctx.path = "/other", ctx.method = "PUT"              *)
(*   throw          : throw new Error(...)                                 *)
(*   throwValue     : throw a value that is not an Error                   *)
(*   fire           : next() without await                                 *)
(*   sleep          : await something that is not next(), such as a timer  *)

Script(beh) ==
  CASE beh = "pass"       -> <<"before", "next", "after">>
    [] beh = "stop"       -> <<"before">>
    [] beh = "throw"      -> <<"throw">>
    [] beh = "throwValue" -> <<"throwValue">>
    [] beh = "setError"   -> <<"setError", "next">>
    [] beh = "setPath"    -> <<"setPath", "next">>
    [] beh = "twice"      -> <<"next", "next">>
    [] beh = "throwAfter" -> <<"next", "throw">>
    [] beh = "setThrow"   -> <<"setError", "throw">>
    [] beh = "fire"       -> <<"fire", "after">>
    [] beh = "sleep"      -> <<"sleep", "before">>
    [] beh = "sleepPass"  -> <<"sleep", "next">>
    [] beh = "sleepThrow" -> <<"sleep", "throw">>
    \* error handlers
    [] beh = "errPass"     -> <<"next">>
    [] beh = "errStop"     -> <<>>
    [] beh = "errThrow"    -> <<"throw">>
    [] beh = "errSetError" -> <<"setError", "next">>
    [] OTHER -> <<>>

Fn(fname, beh) == [fname |-> fname, beh |-> beh]
NoFn == Fn("", "")

\* thrown values: an Error object made by a handler, or some other value
NewError(by) == [isError |-> TRUE, by |-> by, wrapped |-> FALSE]
NewValue(by) == [isError |-> FALSE, by |-> by, wrapped |-> FALSE]

toError_unchanged(error) == error

\* error instanceof Error ? error : new Error(String(error))
toError(error) ==
  IF error.isError THEN error
  ELSE [isError |-> TRUE, by |-> error.by, wrapped |-> TRUE]

-----------------------------------------------------------------------------
(* MiddlewareChain: the instance fields and the synchronous methods, as    *)
(* functions from the instance to the instance they leave and the result.  *)

NewChain ==
  [middlewares |-> <<>>, errorMiddlewares |-> <<>>, enableStats |-> FALSE,
   stats |-> <<>>]

Names(list) == {list[i].name : i \in 1..Len(list)}
\* Array.prototype.findIndex, 1-based, 0 when absent
FindIndex(list, name) ==
  IF name \in Names(list)
    THEN CHOOSE i \in 1..Len(list) :
           list[i].name = name /\ \A j \in 1..(i - 1) : list[j].name # name
    ELSE 0
InsertAt_atEnd(list, at, x) == Append(list, x)

\* Array.prototype.splice(at, 0, x) and splice(at, 1), 1-based
InsertAt(list, at, x) == SubSeq(list, 1, at - 1) \o <<x>> \o SubSeq(list, at, Len(list))
RemoveAt(list, at) == SubSeq(list, 1, at - 1) \o SubSeq(list, at + 1, Len(list))

resolveName_fromOne(name, middleware, prefix, n) ==
  IF IsDefined(name) /\ name[1] # "" THEN name[1]
  ELSE IF middleware.fname # "" THEN middleware.fname
  ELSE prefix \o ToString(n + 1)

\* name || middleware.name || `${prefix}${n}`
resolveName(name, middleware, prefix, n) ==
  IF IsDefined(name) /\ name[1] # "" THEN name[1]
  ELSE IF middleware.fname # "" THEN middleware.fname
  ELSE prefix \o ToString(n)

\* the arguments of use: [t, s, f, c] with t in undefined/string/function/object
ArgUndefined == [t |-> "undefined", s |-> "", f |-> NoFn, c |-> Condition(NoPath, NoMethod, Undefined)]
ArgString(s) == [ArgUndefined EXCEPT !.t = "string", !.s = s]
ArgFunction(f) == [ArgUndefined EXCEPT !.t = "function", !.f = f]
ArgObject(c) == [ArgUndefined EXCEPT !.t = "object", !.c = c]
ArgName(a) == IF a.t = "string" THEN Some(a.s) ELSE Undefined

\* the overload dispatch of use: which handler, condition and name it means
useArguments(middlewareOrPath, conditionOrMiddleware, nameOrCondition) ==
  IF middlewareOrPath.t = "string"
    THEN [middleware |-> conditionOrMiddleware.f,
          condition |-> Some(Condition(PathString(middlewareOrPath.s), NoMethod, Undefined)),
          name |-> ArgName(nameOrCondition)]
  ELSE IF conditionOrMiddleware.t = "string"
    THEN [middleware |-> middlewareOrPath.f,
          condition |-> Some(Condition(PathString(conditionOrMiddleware.s), NoMethod, Undefined)),
          name |-> ArgName(nameOrCondition)]
  ELSE IF conditionOrMiddleware.t = "object"
    THEN [middleware |-> middlewareOrPath.f,
          condition |-> Some(conditionOrMiddleware.c),
          name |-> ArgName(nameOrCondition)]
  ELSE IF conditionOrMiddleware.t = "undefined" /\ nameOrCondition.t # "undefined"
    THEN [middleware |-> middlewareOrPath.f,
          condition |-> Undefined,
          name |-> ArgName(nameOrCondition)]
  ELSE [middleware |-> middlewareOrPath.f,
        condition |-> Undefined,
        name |-> ArgName(conditionOrMiddleware)]

Registration(name, middleware, condition) ==
  [name |-> name, middleware |-> middleware, condition |-> condition]

\* the duplicate check of use, insertBefore and insertAfter
isDuplicate_never(list, name) == FALSE

isDuplicate(list, name) == \E i \in 1..Len(list) : list[i].name = name

\* the name use gives the handler
useName(chain, middlewareOrPath, conditionOrMiddleware, nameOrCondition) ==
  LET a == useArguments(middlewareOrPath, conditionOrMiddleware, nameOrCondition)
  IN resolveName(a.name, a.middleware, "middleware-", Len(chain.middlewares))

use(chain, middlewareOrPath, conditionOrMiddleware, nameOrCondition) ==
  LET a == useArguments(middlewareOrPath, conditionOrMiddleware, nameOrCondition)
      middlewareName ==
        useName(chain, middlewareOrPath, conditionOrMiddleware, nameOrCondition)
  IN IF isDuplicate(chain.middlewares, middlewareName)
       THEN [chain |-> chain, result |-> "duplicate"]
       ELSE [chain |-> [chain EXCEPT !.middlewares =
                          Append(@, Registration(middlewareName, a.middleware, a.condition))],
             result |-> "ok"]

\* the name useError gives the error handler
useErrorName(chain, middleware, name) ==
  resolveName(name, middleware, "error-middleware-", Len(chain.errorMiddlewares))

useError(chain, middleware, name) ==
  LET middlewareName == useErrorName(chain, middleware, name)
  IN IF isDuplicate(chain.errorMiddlewares, middlewareName)
       THEN [chain |-> chain, result |-> "duplicate"]
       ELSE [chain |-> [chain EXCEPT !.errorMiddlewares =
                          Append(@, [name |-> middlewareName, middleware |-> middleware])],
             result |-> "ok"]

\* the name insertBefore and insertAfter give the handler
insertName(chain, middleware, name) ==
  resolveName(name, middleware, "middleware-", Len(chain.middlewares))

insertAt_unchecked(chain, offset, targetName, middleware, condition, name) ==
  LET targetIndex == FindIndex(chain.middlewares, targetName)
      middlewareName == insertName(chain, middleware, name)
  IN IF targetIndex = 0
       THEN [chain |-> chain, result |-> "false"]
       ELSE [chain |-> [chain EXCEPT !.middlewares =
                          InsertAt(@, targetIndex + offset,
                                   Registration(middlewareName, middleware, condition))],
             result |-> "true"]

\* insertBefore (offset 0) and insertAfter (offset 1)
insertAt(chain, offset, targetName, middleware, condition, name) ==
  LET targetIndex == FindIndex(chain.middlewares, targetName)
      middlewareName == insertName(chain, middleware, name)
  IN IF targetIndex = 0
       THEN [chain |-> chain, result |-> "false"]
     ELSE IF isDuplicate(chain.middlewares, middlewareName)
       THEN [chain |-> chain, result |-> "duplicate"]
     ELSE [chain |-> [chain EXCEPT !.middlewares =
                        InsertAt(@, targetIndex + offset,
                                 Registration(middlewareName, middleware, condition))],
           result |-> "true"]

insertBefore(chain, targetName, middleware, condition, name) ==
  insertAt(chain, 0, targetName, middleware, condition, name)

insertAfter(chain, targetName, middleware, condition, name) ==
  insertAt(chain, 1, targetName, middleware, condition, name)

statsDelete_nothing(stats, name) == stats

\* Map.prototype.delete on the stats table (a list of entries in insertion order)
statsDelete(stats, name) ==
  IF FindIndex(stats, name) = 0 THEN stats ELSE RemoveAt(stats, FindIndex(stats, name))

remove(chain, name) ==
  LET index == FindIndex(chain.middlewares, name)
  IN IF index = 0
       THEN [chain |-> chain, result |-> "false"]
       ELSE [chain |-> [chain EXCEPT !.middlewares = RemoveAt(@, index),
                                     !.stats = statsDelete(@, name)],
             result |-> "true"]

removeError(chain, name) ==
  LET index == FindIndex(chain.errorMiddlewares, name)
  IN IF index = 0
       THEN [chain |-> chain, result |-> "false"]
       ELSE [chain |-> [chain EXCEPT !.errorMiddlewares = RemoveAt(@, index)],
             result |-> "true"]

clear_keepsStats(chain) ==
  [chain EXCEPT !.middlewares = <<>>, !.errorMiddlewares = <<>>]

clear(chain) ==
  [chain EXCEPT !.middlewares = <<>>, !.errorMiddlewares = <<>>, !.stats = <<>>]

\* updateStats: the entry of the name is created when missing, then updated
\* a quotient of two numbers, kept as the pair of them: a / b
Ratio(a, b) == <<a, b>>
SameRatio(p, q) == p[1] * q[2] = q[1] * p[2]

NewStats(name) ==
  [name |-> name, count |-> 0, totalTime |-> 0, averageTime |-> Ratio(0, 1),
   maxTime |-> 0, minTime |-> Undefined, errorCount |-> 0]

Max(a, b) == IF a >= b THEN a ELSE b
MinTime_keepsFirst(minTime, duration) ==
  IF minTime = Undefined THEN Some(duration) ELSE minTime

\* Math.min(stats.minTime, duration), minTime being Infinity (Undefined) at first
MinTime(minTime, duration) ==
  IF minTime = Undefined \/ duration <= minTime[1] THEN Some(duration) ELSE minTime

updateStats_errorsApart(stats, name, duration, isError) ==
  LET table == IF FindIndex(stats, name) = 0 THEN Append(stats, NewStats(name)) ELSE stats
      i == FindIndex(table, name)
  IN [table EXCEPT ![i] =
        [@ EXCEPT !.count = IF isError THEN @ ELSE @ + 1,
                  !.totalTime = @ + duration,
                  !.averageTime = Ratio(table[i].totalTime + duration, table[i].count + 1),
                  !.maxTime = Max(@, duration),
                  !.minTime = MinTime(@, duration),
                  !.errorCount = IF isError THEN @ + 1 ELSE @]]

updateStats_overwrites(stats, name, duration, isError) ==
  LET table == IF FindIndex(stats, name) = 0 THEN Append(stats, NewStats(name)) ELSE stats
      i == FindIndex(table, name)
  IN [table EXCEPT ![i] =
        [@ EXCEPT !.count = @ + 1,
                  !.totalTime = duration,
                  !.averageTime = Ratio(duration, table[i].count + 1),
                  !.maxTime = Max(@, duration),
                  !.minTime = MinTime(@, duration),
                  !.errorCount = IF isError THEN @ + 1 ELSE @]]

updateStats(stats, name, duration, isError) ==
  LET table == IF FindIndex(stats, name) = 0 THEN Append(stats, NewStats(name)) ELSE stats
      i == FindIndex(table, name)
  IN [table EXCEPT ![i] =
        [@ EXCEPT !.count = @ + 1,
                  !.totalTime = @ + duration,
                  !.averageTime = Ratio(table[i].totalTime + duration, table[i].count + 1),
                  !.maxTime = Max(@, duration),
                  !.minTime = MinTime(@, duration),
                  !.errorCount = IF isError THEN @ + 1 ELSE @]]

-----------------------------------------------------------------------------
(* execute.  A call keeps the closure state of execute (ctx,               *)
(* matchedMiddlewares, index), the activations of its next closures        *)
(* (frames) and the activations of handleError (handlers, each with its    *)
(* own index and error).  A frame of kind "next" is one activation of the  *)
(* next closure of execute together with the handler it invoked; a frame   *)
(* of kind "errorNext" is one activation of the next closure of            *)
(* handleError with its error handler.  Frame states:                      *)
(*   running   the handler body is at step pc of its script                *)
(*   awaiting  the handler awaits the promise of the frame child           *)
(*   returned  the handler returned; next has yet to record the stats      *)
(*   running   the handler is on the call stack and runs its next step      *)
(*   calling   the handler called next() without await, which has yet to   *)
(*             return its promise                                          *)
(*   awaiting  the handler awaits the next() of activation child           *)
(*   sleeping  the handler awaits something else                           *)
(*   returned  the handler returned; next has yet to go on after its await *)
(*   threw     the handler threw error; next has yet to enter its catch    *)
(*   handling  next awaits handleError, whose first frame is child         *)
(*   resolved / rejected   the promise of the activation is settled        *)
(* duration is the const duration of next, once computed; caught tells     *)
(* that next went through its catch block; entered is the time at which    *)
(* next called the handler, whatever startTime holds.                      *)

NoError == [isError |-> FALSE, by |-> "", wrapped |-> FALSE]

Context(path, method, error) == [path |-> path, method |-> method, error |-> error]

Frame(kind, registration, parent, startTime, handler) ==
  [kind |-> kind, name |-> registration.name, middleware |-> registration.middleware,
   pc |-> 1, state |-> "running", child |-> 0, parent |-> parent,
   error |-> NoError, startTime |-> startTime, handler |-> handler,
   duration |-> Undefined, caught |-> FALSE, entered |-> 0]

Event(call, ev, name, error) == [call |-> call, ev |-> ev, name |-> name, error |-> error]

\* this.middlewares.filter((registration) => this.matches(registration, ctx))
filterMatched(middlewares, ctx) ==
  SelectSeq(middlewares, LAMBDA registration : matches(registration, ctx))

\* the registrations after the filter ran their conditions
middlewaresAfterFilter(middlewares, ctx) ==
  [i \in 1..Len(middlewares) |-> registrationAfterMatch(middlewares[i], ctx)]

canInvoke_ignoresError(call) ==
  call.index < Len(call.matchedMiddlewares)

\* next of execute goes on to a handler: ctx.error unset and the list not exhausted
canInvoke(call) ==
  /\ ~call.ctx.error
  /\ call.index < Len(call.matchedMiddlewares)

nextRegistration_sharedCursor(call) ==
  LET others == {calls[d].index : d \in 1..Len(calls)}
      index == IF others = {} THEN call.index
               ELSE CHOOSE i \in others : \A j \in others : j <= i
  IN IF index + 1 <= Len(call.matchedMiddlewares)
       THEN call.matchedMiddlewares[index + 1]
       ELSE call.matchedMiddlewares[call.index + 1]

nextRegistration_live(call) ==
  LET live == filterMatched(chains[call.chain].middlewares, call.ctx)
  IN IF call.index + 1 <= Len(live)
       THEN live[call.index + 1]
       ELSE call.matchedMiddlewares[call.index + 1]

nextRegistration_fromEnd(call) ==
  call.matchedMiddlewares[Len(call.matchedMiddlewares) - call.index]

\* const registration = matchedMiddlewares[index++]
nextRegistration(call) == call.matchedMiddlewares[call.index + 1]

\* const startTime = this.enableStats ? Date.now() : 0
startTimeOf(chain, time) == IF chain.enableStats THEN time ELSE 0

\* next of execute invoking the handler of the next registration
invoke_sameIndex(call, chain, time, parent) ==
  [call EXCEPT
     !.frames = Append(@, [Frame("next", nextRegistration(call), parent,
                                 startTimeOf(chain, time), 0) EXCEPT !.entered = time])]

invoke(call, chain, time, parent) ==
  [call EXCEPT
     !.index = @ + 1,
     !.frames = Append(@, [Frame("next", nextRegistration(call), parent,
                                 startTimeOf(chain, time), 0) EXCEPT !.entered = time])]

canInvokeError_unlessError(call, chain, h) ==
  /\ ~call.ctx.error
  /\ call.handlers[h].index < Len(chain.errorMiddlewares)

\* next of handleError goes on to an error handler: the list is read when called
canInvokeError(call, chain, h) ==
  call.handlers[h].index < Len(chain.errorMiddlewares)

errorRegistration(call, chain, h) ==
  chain.errorMiddlewares[call.handlers[h].index + 1]

invokeError(call, chain, h, parent) ==
  [call EXCEPT
     !.handlers[h].index = @ + 1,
     !.frames = Append(@, Frame("errorNext", errorRegistration(call, chain, h),
                                parent, 0, h))]

\* the promise of frame f settles; the promise of execute follows the first frame
settle(call, f, state, error) ==
  [call EXCEPT
     !.frames[f].state = state,
     !.frames[f].error = error,
     !.frames[f].child = 0,
     !.state = IF call.frames[f].parent = 0 THEN state ELSE @,
     !.error = IF call.frames[f].parent = 0 THEN error ELSE @]

NewCall(chain, k, ctx) ==
  [chain |-> k, ctx |-> ctx,
   matchedMiddlewares |-> filterMatched(chain.middlewares, ctx),
   index |-> 0, frames |-> <<>>, handlers |-> <<>>,
   state |-> "pending", error |-> NoError]

InFlight == {c \in 1..Len(calls) : calls[c].state = "pending"}

\* the call stack is empty: no handler is in a synchronous stretch of its body
Idle ==
  \A c \in 1..Len(calls) : \A f \in 1..Len(calls[c].frames) :
    calls[c].frames[f].state \notin {"running", "calling"}

\* what an observer of the chain notes when call c starts: the error handlers
\* registered at that moment
atStart(c, chain) ==
  [i \in 1..Len(chain.errorMiddlewares) |->
     Event(c, "registeredError", chain.errorMiddlewares[i].name, NoError)]

\* execute(ctx) up to its await next()
\* execute of the chain k, called with target as its chain name when it is
\* called through the manager
ExecuteAs(k, ctx, target) ==
  /\ Idle
  /\ LET chain == chains[k]
         call == NewCall(chain, k, ctx)
         c == Len(calls) + 1
     IN /\ chains' = [chains EXCEPT
                        ![k].middlewares = middlewaresAfterFilter(@, ctx)]
        /\ IF canInvoke(call)
             THEN /\ calls' = Append(calls, invoke(call, chain, now, 0))
                  /\ log' = Append(log \o atStart(c, chain),
                                   Event(c, "invoke", nextRegistration(call).name, NoError))
             ELSE /\ calls' = Append(calls, [call EXCEPT !.state = "resolved"])
                  /\ log' = log \o atStart(c, chain)
  /\ ret' = [op |-> "execute", name |-> "", target |-> target, result |-> "promise"]
  /\ UNCHANGED <<now, manager>>

Execute(k, ctx) == ExecuteAs(k, ctx, "")

Running(c, f) ==
  /\ c \in 1..Len(calls)
  /\ f \in 1..Len(calls[c].frames)
  /\ calls[c].frames[f].state = "running"

AtStep(c, f, steps) ==
  /\ Running(c, f)
  /\ calls[c].frames[f].pc <= Len(Script(calls[c].frames[f].middleware.beh))
  /\ Script(calls[c].frames[f].middleware.beh)[calls[c].frames[f].pc] \in steps

\* a handler pushes its marker
HandlerMark(c, f) ==
  /\ AtStep(c, f, {"before", "after"})
  /\ LET frame == calls[c].frames[f]
     IN log' = Append(log, Event(c, Script(frame.middleware.beh)[frame.pc], frame.name, NoError))
  /\ calls' = [calls EXCEPT ![c].frames[f].pc = @ + 1]
  /\ UNCHANGED <<chains, ret, now, manager>>

\* a handler or an error handler sets ctx.error
HandlerSetError(c, f) ==
  /\ AtStep(c, f, {"setError"})
  /\ calls' = [calls EXCEPT ![c].frames[f].pc = @ + 1, ![c].ctx.error = TRUE]
  /\ log' = Append(log, Event(c, "setError", calls[c].frames[f].name, NoError))
  /\ UNCHANGED <<chains, ret, now, manager>>

\* a handler changes ctx.path and ctx.method
HandlerSetPath(c, f) ==
  /\ AtStep(c, f, {"setPath"})
  /\ calls' = [calls EXCEPT ![c].frames[f].pc = @ + 1,
                            ![c].ctx.path = Some("/other"),
                            ![c].ctx.method = Some("PUT")]
  /\ UNCHANGED <<chains, log, ret, now, manager>>

HandlerNext_withoutAwait(c, f) ==
  /\ AtStep(c, f, {"next"})
  /\ calls[c].frames[f].kind = "next"
  /\ LET call == calls[c]
         chain == chains[call.chain]
     IN IF canInvoke(call)
          THEN /\ calls' = [calls EXCEPT ![c] =
                    [invoke(call, chain, now, f) EXCEPT !.frames[f].pc = @ + 1]]
               /\ log' = Append(log, Event(c, "invoke", nextRegistration(call).name, NoError))
          ELSE /\ calls' = [calls EXCEPT ![c].frames[f].pc = @ + 1]
               /\ log' = log
  /\ UNCHANGED <<chains, ret, now, manager>>

\* a handler runs await next(): next of execute, called from a handler
HandlerNext(c, f) ==
  /\ AtStep(c, f, {"next"})
  /\ calls[c].frames[f].kind = "next"
  /\ LET call == calls[c]
         chain == chains[call.chain]
     IN IF canInvoke(call)
          THEN /\ calls' = [calls EXCEPT ![c] =
                    [invoke(call, chain, now, f) EXCEPT
                       !.frames[f].state = "awaiting",
                       !.frames[f].child = Len(call.frames) + 1]]
               /\ log' = Append(log, Event(c, "invoke", nextRegistration(call).name, NoError))
          ELSE /\ calls' = [calls EXCEPT ![c].frames[f].pc = @ + 1]
               /\ log' = log
  /\ UNCHANGED <<chains, ret, now, manager>>

\* an error handler runs await next(): next of handleError
ErrorHandlerNext(c, f) ==
  /\ AtStep(c, f, {"next"})
  /\ calls[c].frames[f].kind = "errorNext"
  /\ LET call == calls[c]
         chain == chains[call.chain]
         h == call.frames[f].handler
     IN IF canInvokeError(call, chain, h)
          THEN /\ calls' = [calls EXCEPT ![c] =
                    [invokeError(call, chain, h, f) EXCEPT
                       !.frames[f].state = "awaiting",
                       !.frames[f].child = Len(call.frames) + 1]]
               /\ log' = Append(log, Event(c, "invokeError",
                                           errorRegistration(call, chain, h).name,
                                           call.handlers[h].error))
          ELSE /\ calls' = [calls EXCEPT ![c].frames[f].pc = @ + 1]
               /\ log' = log
  /\ UNCHANGED <<chains, ret, now, manager>>

\* a handler runs next() without await: the handler behind it runs first, up to
\* its first await, and then next() returns its promise to this handler
HandlerFire(c, f) ==
  /\ AtStep(c, f, {"fire"})
  /\ calls[c].frames[f].kind = "next"
  /\ LET call == calls[c]
         chain == chains[call.chain]
     IN IF canInvoke(call)
          THEN /\ calls' = [calls EXCEPT ![c] =
                    [invoke(call, chain, now, f) EXCEPT
                       !.frames[f].state = "calling",
                       !.frames[f].child = Len(call.frames) + 1]]
               /\ log' = Append(log, Event(c, "invoke", nextRegistration(call).name, NoError))
          ELSE /\ calls' = [calls EXCEPT ![c].frames[f].pc = @ + 1]
               /\ log' = log
  /\ UNCHANGED <<chains, ret, now, manager>>

\* the next() called without await has returned its promise: the handler goes on
HandlerFireReturn(c, f) ==
  /\ c \in 1..Len(calls)
  /\ f \in 1..Len(calls[c].frames)
  /\ calls[c].frames[f].state = "calling"
  /\ \A d \in 1..Len(calls) : \A g \in 1..Len(calls[d].frames) :
       /\ calls[d].frames[g].state # "running"
       /\ calls[d].frames[g].state = "calling" => d = c /\ g <= f
  /\ calls' = [calls EXCEPT ![c].frames[f].state = "running",
                            ![c].frames[f].pc = @ + 1,
                            ![c].frames[f].child = 0]
  /\ UNCHANGED <<chains, log, ret, now, manager>>

\* a handler or an error handler awaits something that is not next()
HandlerSleep(c, f) ==
  /\ AtStep(c, f, {"sleep"})
  /\ calls' = [calls EXCEPT ![c].frames[f].state = "sleeping"]
  /\ UNCHANGED <<chains, log, ret, now, manager>>

\* what the handler awaited has settled: the handler goes on
HandlerWake(c, f) ==
  /\ Idle
  /\ c \in 1..Len(calls)
  /\ f \in 1..Len(calls[c].frames)
  /\ calls[c].frames[f].state = "sleeping"
  /\ calls' = [calls EXCEPT ![c].frames[f].state = "running",
                            ![c].frames[f].pc = @ + 1]
  /\ UNCHANGED <<chains, log, ret, now, manager>>

thrownBy(step, name) == IF step = "throw" THEN NewError(name) ELSE NewValue(name)

\* a handler throws: the await middleware(ctx, next) of its next rejects
HandlerThrow(c, f) ==
  /\ AtStep(c, f, {"throw", "throwValue"})
  /\ calls[c].frames[f].kind = "next"
  /\ LET frame == calls[c].frames[f]
         error == thrownBy(Script(frame.middleware.beh)[frame.pc], frame.name)
     IN /\ calls' = [calls EXCEPT ![c].frames[f].state = "threw",
                                  ![c].frames[f].error = error]
        /\ log' = Append(log, Event(c, "throw", frame.name, error))
  /\ UNCHANGED <<chains, ret, now, manager>>

\* an error handler throws: next of handleError rethrows it as an Error
ErrorHandlerThrow(c, f) ==
  /\ AtStep(c, f, {"throw", "throwValue"})
  /\ calls[c].frames[f].kind = "errorNext"
  /\ LET frame == calls[c].frames[f]
         error == thrownBy(Script(frame.middleware.beh)[frame.pc], frame.name)
     IN /\ calls' = [calls EXCEPT ![c] = settle(@, f, "rejected", toError(error))]
        /\ log' = Append(log, Event(c, "throwError", frame.name, error))
  /\ UNCHANGED <<chains, ret, now, manager>>

HandlerReturn_continues(c, f) ==
  /\ Running(c, f)
  /\ calls[c].frames[f].pc > Len(Script(calls[c].frames[f].middleware.beh))
  /\ IF calls[c].frames[f].kind = "next" /\ canInvoke(calls[c])
       THEN /\ calls' = [calls EXCEPT ![c] =
                 [invoke(@, chains[@.chain], now, f) EXCEPT
                    !.frames[f].state = "awaiting",
                    !.frames[f].child = Len(calls[c].frames) + 1]]
            /\ log' = Append(log, Event(c, "invoke", nextRegistration(calls[c]).name, NoError))
       ELSE /\ calls' = [calls EXCEPT ![c] =
                 IF @.frames[f].kind = "next"
                   THEN [@ EXCEPT !.frames[f].state = "returned"]
                   ELSE settle(@, f, "resolved", NoError)]
            /\ log' = log
  /\ UNCHANGED <<chains, ret, now, manager>>

\* a handler body ends
HandlerReturn(c, f) ==
  /\ Running(c, f)
  /\ calls[c].frames[f].pc > Len(Script(calls[c].frames[f].middleware.beh))
  /\ calls' = [calls EXCEPT ![c] =
       IF @.frames[f].kind = "next"
         THEN [@ EXCEPT !.frames[f].state = "returned"]
         ELSE settle(@, f, "resolved", NoError)]
  /\ UNCHANGED <<chains, log, ret, now, manager>>

Awaiting(c, f, state) ==
  /\ c \in 1..Len(calls)
  /\ f \in 1..Len(calls[c].frames)
  /\ calls[c].frames[f].state = state
  /\ calls[c].frames[f].child # 0
  /\ calls[c].frames[calls[c].frames[f].child].state \in {"resolved", "rejected"}

HandlerResume_onlyResolved(c, f) ==
  /\ Idle
  /\ Awaiting(c, f, "awaiting")
  /\ calls[c].frames[calls[c].frames[f].child].state = "resolved"
  /\ calls' = [calls EXCEPT ![c].frames[f].state = "running",
                            ![c].frames[f].pc = @ + 1,
                            ![c].frames[f].child = 0]
  /\ UNCHANGED <<chains, log, ret, now, manager>>

\* the awaited next() settled: the handler goes on, or the rejection throws in it
HandlerResume(c, f) ==
  /\ Idle
  /\ Awaiting(c, f, "awaiting")
  /\ LET call == calls[c]
         child == call.frames[call.frames[f].child]
     IN calls' = [calls EXCEPT ![c] =
          IF child.state = "resolved"
            THEN [@ EXCEPT !.frames[f].state = "running",
                           !.frames[f].pc = @ + 1,
                           !.frames[f].child = 0]
          ELSE IF call.frames[f].kind = "next"
            THEN [@ EXCEPT !.frames[f].state = "threw",
                           !.frames[f].error = child.error,
                           !.frames[f].child = 0]
          ELSE settle(@, f, "rejected", toError(child.error))]
  /\ UNCHANGED <<chains, log, ret, now, manager>>

\* next of execute after await middleware(ctx, next): the stats, then return
recording_always(chain) == TRUE

\* if (this.enableStats), asked when the handler has returned or thrown
recording(chain) == chain.enableStats

NextReturn(c, f) ==
  /\ Idle
  /\ c \in 1..Len(calls)
  /\ f \in 1..Len(calls[c].frames)
  /\ calls[c].frames[f].state = "returned"
  /\ LET call == calls[c]
         frame == call.frames[f]
         k == call.chain
     IN /\ chains' = IF recording(chains[k])
                       THEN [chains EXCEPT ![k].stats =
                               updateStats(@, frame.name, now - frame.startTime, FALSE)]
                       ELSE chains
        /\ calls' = [calls EXCEPT ![c] =
             settle([@ EXCEPT !.frames[f].duration =
                                IF recording(chains[k])
                                  THEN Some(now - frame.startTime) ELSE Undefined],
                    f, "resolved", NoError)]
  /\ UNCHANGED <<log, ret, now, manager>>

unhandled_swallowed(call, f, error) == settle(call, f, "resolved", NoError)

\* handleError with no error handler registered: throw error
unhandled_continueOnError(call, f, error) ==
  IF manager.continueOnError
    THEN settle(call, f, "resolved", NoError)
    ELSE settle(call, f, "rejected", error)

unhandled(call, f, error) == settle(call, f, "rejected", error)

\* the catch of next of execute: the error stats, then handleError up to its await
NextCatch(c, f) ==
  /\ Idle
  /\ c \in 1..Len(calls)
  /\ f \in 1..Len(calls[c].frames)
  /\ calls[c].frames[f].state = "threw"
  /\ LET call == calls[c]
         frame == call.frames[f]
         k == call.chain
         chain == chains[k]
         error == toError(frame.error)
         h == Len(call.handlers) + 1
         caught == [call EXCEPT !.frames[f].caught = TRUE]
         handling == [caught EXCEPT !.handlers = Append(@, [index |-> 0, error |-> error])]
     IN /\ chains' = IF recording(chain)
                       THEN [chains EXCEPT ![k].stats = updateStats(@, frame.name, 0, TRUE)]
                       ELSE chains
        /\ IF Len(chain.errorMiddlewares) = 0
             THEN /\ calls' = [calls EXCEPT ![c] = unhandled(caught, f, error)]
                  /\ log' = log
             ELSE /\ calls' = [calls EXCEPT ![c] =
                       [invokeError(handling, chain, h, f) EXCEPT
                          !.frames[f].state = "handling",
                          !.frames[f].child = Len(call.frames) + 1]]
                  /\ log' = Append(log, Event(c, "invokeError",
                                              errorRegistration(handling, chain, h).name, error))
  /\ UNCHANGED <<ret, now, manager>>

\* await this.handleError(...) settled: next returns, or the rejection leaves it
HandleErrorSettled_rethrows(c, f) ==
  /\ Idle
  /\ Awaiting(c, f, "handling")
  /\ calls' = [calls EXCEPT ![c] =
       settle(@, f, "rejected", @.handlers[Len(@.handlers)].error)]
  /\ UNCHANGED <<chains, log, ret, now, manager>>

HandleErrorSettled(c, f) ==
  /\ Idle
  /\ Awaiting(c, f, "handling")
  /\ LET child == calls[c].frames[calls[c].frames[f].child]
     IN calls' = [calls EXCEPT ![c] = settle(@, f, child.state, child.error)]
  /\ UNCHANGED <<chains, log, ret, now, manager>>

-----------------------------------------------------------------------------
(* The synchronous methods of a chain, called by the program that owns it  *)

\* ret: the method called last, the handler name and the target name it worked
\* with, and what it returned ("duplicate": it threw the duplicate-name error)
Ret(op, name, target, result) ==
  [op |-> op, name |-> name, target |-> target, result |-> result]

Apply(k, op, name, target, outcome) ==
  /\ chains' = [chains EXCEPT ![k] = outcome.chain]
  /\ ret' = Ret(op, name, target, outcome.result)
  /\ UNCHANGED <<calls, log, now, manager>>

Use(k, middlewareOrPath, conditionOrMiddleware, nameOrCondition) ==
  LET outcome == use(chains[k], middlewareOrPath, conditionOrMiddleware, nameOrCondition)
  IN /\ Len(outcome.chain.middlewares) <= MaxMiddlewares
     /\ Apply(k, "use",
              useName(chains[k], middlewareOrPath, conditionOrMiddleware, nameOrCondition),
              "", outcome)

UseError(k, middleware, name) ==
  LET outcome == useError(chains[k], middleware, name)
  IN /\ Len(outcome.chain.errorMiddlewares) <= MaxErrorMiddlewares
     /\ Apply(k, "useError", useErrorName(chains[k], middleware, name), "", outcome)

InsertBefore(k, targetName, middleware, condition, name) ==
  LET outcome == insertBefore(chains[k], targetName, middleware, condition, name)
  IN /\ Len(outcome.chain.middlewares) <= MaxMiddlewares
     /\ Apply(k, "insertBefore", insertName(chains[k], middleware, name), targetName, outcome)

InsertAfter(k, targetName, middleware, condition, name) ==
  LET outcome == insertAfter(chains[k], targetName, middleware, condition, name)
  IN /\ Len(outcome.chain.middlewares) <= MaxMiddlewares
     /\ Apply(k, "insertAfter", insertName(chains[k], middleware, name), targetName, outcome)

Remove(k, name) == Apply(k, "remove", name, "", remove(chains[k], name))

RemoveError(k, name) == Apply(k, "removeError", name, "", removeError(chains[k], name))

Clear(k) == Apply(k, "clear", "", "", [chain |-> clear(chains[k]), result |-> "ok"])

ClearStats(k) ==
  Apply(k, "clearStats", "", "",
        [chain |-> [chains[k] EXCEPT !.stats = <<>>], result |-> "ok"])

EnablePerformanceMonitoring(k) ==
  Apply(k, "enablePerformanceMonitoring", "", "",
        [chain |-> [chains[k] EXCEPT !.enableStats = TRUE], result |-> "ok"])

DisablePerformanceMonitoring(k) ==
  Apply(k, "disablePerformanceMonitoring", "", "",
        [chain |-> [chains[k] EXCEPT !.enableStats = FALSE], result |-> "ok"])

\* the clock behind Date.now() advances by a millisecond
Tick ==
  /\ now < MaxTime
  /\ now' = now + 1
  /\ UNCHANGED <<chains, calls, log, ret, manager>>

-----------------------------------------------------------------------------
(* The state after const chain = new MiddlewareChain()                     *)

-----------------------------------------------------------------------------
(* MiddlewareManager: the chain registry (chain name -> object id of the   *)
(* chain in chains), the definition table in insertion order, the          *)
(* monitoring option and the keys registered in the service container.     *)
(* The methods are functions from the manager and the chain objects (heap) *)
(* to what they leave and the result. The container is the caller's: it is *)
(* taken to accept registerSingleton for any key, also one it holds.       *)

DefaultPriority == 100
DefaultChain == "default"
SERVICE_PREFIX == "middleware:"

Definition(name, handler, condition, priority, chain) ==
  [name |-> name, handler |-> handler, condition |-> condition,
   priority |-> priority, chain |-> chain]

ErrorDefinition(name, handler, chain) == [name |-> name, handler |-> handler, chain |-> chain]

\* MiddlewareManagerOptions, each option given or left out
Options(enablePerformanceMonitoring, continueOnError) ==
  [enablePerformanceMonitoring |-> enablePerformanceMonitoring,
   continueOnError |-> continueOnError]

\* new MiddlewareManager(container, options)
NewManagerWith(options) ==
  [chains |-> <<>>, definitions |-> <<>>,
   enablePerformanceMonitoring |->
     IF IsDefined(options.enablePerformanceMonitoring)
       THEN options.enablePerformanceMonitoring[1] ELSE FALSE,
   continueOnError |->
     IF IsDefined(options.continueOnError) THEN options.continueOnError[1] ELSE TRUE,
   container |-> {"middlewareManager"}]

NewManager == NewManagerWith(Options(Undefined, Undefined))

priorityOf(definition) ==
  IF IsDefined(definition.priority) THEN definition.priority[1] ELSE DefaultPriority

chainOf(definition) ==
  IF IsDefined(definition.chain) THEN definition.chain[1] ELSE DefaultChain

\* this.chains.get(chainName): the object id of the chain, 0 for undefined
chainsGet(m, chainName) ==
  IF FindIndex(m.chains, chainName) = 0 THEN 0
  ELSE m.chains[FindIndex(m.chains, chainName)].chain

registerSingleton(container, serviceName) == container \cup {serviceName}

getOrCreateChain_off(m, heap, chainName) ==
  IF chainsGet(m, chainName) # 0
    THEN [manager |-> m, heap |-> heap, chain |-> chainsGet(m, chainName)]
    ELSE [manager |->
            [m EXCEPT !.chains = Append(@, [name |-> chainName, chain |-> Len(heap) + 1]),
                      !.container = registerSingleton(@, SERVICE_PREFIX \o chainName)],
          heap |-> Append(heap, NewChain),
          chain |-> Len(heap) + 1]

getOrCreateChain(m, heap, chainName) ==
  IF chainsGet(m, chainName) # 0
    THEN [manager |-> m, heap |-> heap, chain |-> chainsGet(m, chainName)]
    ELSE [manager |->
            [m EXCEPT !.chains = Append(@, [name |-> chainName, chain |-> Len(heap) + 1]),
                      !.container = registerSingleton(@, SERVICE_PREFIX \o chainName)],
          heap |-> Append(heap, [NewChain EXCEPT !.enableStats = m.enablePerformanceMonitoring]),
          chain |-> Len(heap) + 1]

has_never(definitions, name) == FALSE

\* this.definitions.has(name)
has(definitions, name) == name \in Names(definitions)

register_byPriority(m, heap, definition) ==
  IF has(m.definitions, definition.name)
    THEN [manager |-> m, heap |-> heap, result |-> "duplicate"]
    ELSE LET saved == [m EXCEPT !.definitions =
                         Append(@, [definition EXCEPT !.priority = Some(priorityOf(definition)),
                                                      !.chain = Some(chainOf(definition))])]
             got == getOrCreateChain(saved, heap, chainOf(definition))
             held == got.heap[got.chain].middlewares
             outcome == use(got.heap[got.chain], ArgFunction(definition.handler),
                            IF IsDefined(definition.condition)
                              THEN ArgObject(definition.condition[1]) ELSE ArgUndefined,
                            ArgString(definition.name))
             before == {i \in 1..Len(held) :
                          \E j \in 1..Len(saved.definitions) :
                            /\ saved.definitions[j].name = held[i].name
                            /\ priorityOf(saved.definitions[j]) <= priorityOf(definition)}
         IN [manager |-> got.manager,
             heap |-> [got.heap EXCEPT ![got.chain] =
                         IF outcome.result = "ok"
                           THEN [outcome.chain EXCEPT !.middlewares =
                                   InsertAt(held, Cardinality(before) + 1,
                                            outcome.chain.middlewares[Len(held) + 1])]
                           ELSE outcome.chain],
             result |-> outcome.result]

register(m, heap, definition) ==
  IF has(m.definitions, definition.name)
    THEN [manager |-> m, heap |-> heap, result |-> "duplicate"]
    ELSE LET saved == [m EXCEPT !.definitions =
                         Append(@, [definition EXCEPT !.priority = Some(priorityOf(definition)),
                                                      !.chain = Some(chainOf(definition))])]
             got == getOrCreateChain(saved, heap, chainOf(definition))
             outcome == use(got.heap[got.chain], ArgFunction(definition.handler),
                            IF IsDefined(definition.condition)
                              THEN ArgObject(definition.condition[1]) ELSE ArgUndefined,
                            ArgString(definition.name))
         IN [manager |-> got.manager,
             heap |-> [got.heap EXCEPT ![got.chain] = outcome.chain],
             result |-> outcome.result]

registerError_unique(m, heap, definition) ==
  IF has(m.definitions, definition.name)
    THEN [manager |-> m, heap |-> heap, result |-> "duplicate"]
    ELSE LET got == getOrCreateChain(m, heap, chainOf(definition))
             outcome == useError(got.heap[got.chain], definition.handler,
                                 Some(definition.name))
         IN [manager |-> got.manager,
             heap |-> [got.heap EXCEPT ![got.chain] = outcome.chain],
             result |-> outcome.result]

registerError(m, heap, definition) ==
  LET got == getOrCreateChain(m, heap, chainOf(definition))
      outcome == useError(got.heap[got.chain], definition.handler, Some(definition.name))
  IN [manager |-> got.manager,
      heap |-> [got.heap EXCEPT ![got.chain] = outcome.chain],
      result |-> outcome.result]

sortByPriority_inputOrder(definitions) == definitions

\* [...definitions].sort((a, b) => (a.priority ?? 100) - (b.priority ?? 100)),
\* a stable sort
RECURSIVE sortByPriority(_)
sortByPriority(definitions) ==
  IF definitions = <<>> THEN <<>>
  ELSE LET last == definitions[Len(definitions)]
           sorted == sortByPriority(SubSeq(definitions, 1, Len(definitions) - 1))
           before == {i \in 1..Len(sorted) : priorityOf(sorted[i]) <= priorityOf(last)}
       IN InsertAt(sorted, Cardinality(before) + 1, last)

\* for (const definition of sorted) this.register(definition): the first
\* register that throws ends the loop
RECURSIVE registerEach(_, _, _)
RECURSIVE registerEach_atomic(_, _, _)
registerEach_atomic(m, heap, sorted) ==
  IF \E i \in 1..Len(sorted) :
       \/ has(m.definitions, sorted[i].name)
       \/ \E j \in 1..(i - 1) : sorted[j].name = sorted[i].name
    THEN [manager |-> m, heap |-> heap, result |-> "duplicate"]
  ELSE IF sorted = <<>> THEN [manager |-> m, heap |-> heap, result |-> "ok"]
  ELSE LET r == register(m, heap, Head(sorted))
       IN registerEach_atomic(r.manager, r.heap, Tail(sorted))

registerEach(m, heap, sorted) ==
  IF sorted = <<>> THEN [manager |-> m, heap |-> heap, result |-> "ok"]
  ELSE LET r == register(m, heap, Head(sorted))
       IN IF r.result # "ok" THEN r ELSE registerEach(r.manager, r.heap, Tail(sorted))

registerAll(m, heap, definitions) == registerEach(m, heap, sortByPriority(definitions))

managerRemove_keepsDefinition(m, heap, name) ==
  IF ~has(m.definitions, name)
    THEN [manager |-> m, heap |-> heap, result |-> "false"]
    ELSE LET definition == m.definitions[FindIndex(m.definitions, name)]
             chain == chainsGet(m, chainOf(definition))
         IN [manager |-> m,
             heap |-> IF chain # 0 THEN [heap EXCEPT ![chain] = remove(@, name).chain]
                      ELSE heap,
             result |-> "true"]

\* MiddlewareManager.remove
managerRemove(m, heap, name) ==
  IF ~has(m.definitions, name)
    THEN [manager |-> m, heap |-> heap, result |-> "false"]
    ELSE LET definition == m.definitions[FindIndex(m.definitions, name)]
             chain == chainsGet(m, chainOf(definition))
         IN [manager |-> [m EXCEPT !.definitions = RemoveAt(@, FindIndex(@, name))],
             heap |-> IF chain # 0 THEN [heap EXCEPT ![chain] = remove(@, name).chain]
                      ELSE heap,
             result |-> "true"]

clearChain_allDefinitions(m, heap, chainName) ==
  LET chain == chainsGet(m, chainName)
  IN IF chain = 0 THEN [manager |-> m, heap |-> heap, result |-> "ok"]
     ELSE [manager |-> [m EXCEPT !.definitions = <<>>],
           heap |-> [heap EXCEPT ![chain] = clear(@)],
           result |-> "ok"]

clearChain(m, heap, chainName) ==
  LET chain == chainsGet(m, chainName)
      Kept(definition) == chainOf(definition) # chainName
  IN IF chain = 0 THEN [manager |-> m, heap |-> heap, result |-> "ok"]
     ELSE [manager |-> [m EXCEPT !.definitions = SelectSeq(@, Kept)],
           heap |-> [heap EXCEPT ![chain] = clear(@)],
           result |-> "ok"]

\* MiddlewareManager.clear
managerClear(m, heap) ==
  [manager |-> [m EXCEPT !.definitions = <<>>],
   heap |-> [k \in DOMAIN heap |->
               IF \E i \in 1..Len(m.chains) : m.chains[i].chain = k
                 THEN clear(heap[k]) ELSE heap[k]],
   result |-> "ok"]

dispose_keepsChains(m, heap) == managerClear(m, heap)

dispose(m, heap) ==
  [manager |-> [managerClear(m, heap).manager EXCEPT !.chains = <<>>],
   heap |-> managerClear(m, heap).heap,
   result |-> "ok"]

\* the getters
getMiddlewareCount(m) == Len(m.definitions)
getChainCount(m) == Len(m.chains)
listChains(m) == [i \in 1..Len(m.chains) |-> m.chains[i].name]
listByChain(m, heap, chainName) ==
  IF chainsGet(m, chainName) = 0 THEN <<>>
  ELSE [i \in 1..Len(heap[chainsGet(m, chainName)].middlewares) |->
          heap[chainsGet(m, chainName)].middlewares[i].name]

ManagerApply(op, name, target, outcome) ==
  /\ Len(outcome.heap) <= MaxChains
  /\ \A k \in 1..Len(outcome.heap) :
       /\ Len(outcome.heap[k].middlewares) <= MaxMiddlewares
       /\ Len(outcome.heap[k].errorMiddlewares) <= MaxErrorMiddlewares
  /\ manager' = outcome.manager
  /\ chains' = outcome.heap
  /\ ret' = Ret(op, name, target, outcome.result)
  /\ UNCHANGED <<calls, log, now>>

ManagerExecute_default(ctx, chainName) ==
  IF chainsGet(manager, DefaultChain) = 0
    THEN /\ Idle
         /\ calls' = Append(calls, [NewCall(NewChain, 0, ctx) EXCEPT !.state = "resolved"])
         /\ ret' = [op |-> "execute", name |-> "", target |-> chainName, result |-> "promise"]
         /\ UNCHANGED <<chains, log, now, manager>>
    ELSE ExecuteAs(chainsGet(manager, DefaultChain), ctx, chainName)

\* MiddlewareManager.execute: a chain that does not exist gives a promise
\* that is resolved at once, any other the promise of its own execute
ManagerExecute(ctx, chainName) ==
  IF chainsGet(manager, chainName) = 0
    THEN /\ Idle
         /\ calls' = Append(calls, [NewCall(NewChain, 0, ctx) EXCEPT !.state = "resolved"])
         /\ ret' = [op |-> "execute", name |-> "", target |-> chainName, result |-> "promise"]
         /\ UNCHANGED <<chains, log, now, manager>>
    ELSE ExecuteAs(chainsGet(manager, chainName), ctx, chainName)

\* MiddlewareManager.enablePerformanceMonitoring / disablePerformanceMonitoring
setPerformanceMonitoring(m, heap, enabled) ==
  [manager |-> [m EXCEPT !.enablePerformanceMonitoring = enabled],
   heap |-> [k \in DOMAIN heap |->
               IF \E i \in 1..Len(m.chains) : m.chains[i].chain = k
                 THEN [heap[k] EXCEPT !.enableStats = enabled] ELSE heap[k]],
   result |-> "ok"]

ManagerEnablePerformanceMonitoring ==
  ManagerApply("enablePerformanceMonitoring", "", "",
               setPerformanceMonitoring(manager, chains, TRUE))

ManagerDisablePerformanceMonitoring ==
  ManagerApply("disablePerformanceMonitoring", "", "",
               setPerformanceMonitoring(manager, chains, FALSE))

Init ==
  /\ chains = <<NewChain>>
  /\ calls = <<>>
  /\ log = <<>>
  /\ ret = [op |-> "new", name |-> "", target |-> "", result |-> "ok"]
  /\ now = 0
  /\ manager = NewManager

-----------------------------------------------------------------------------
(* Spec: a program registers anonymous handlers and error handlers on one  *)
(* chain, then calls execute once; the handlers run every behaviour.       *)

Behaviours == {"pass", "stop", "throw", "throwValue", "setError", "twice", "throwAfter"}
ErrorBehaviours == {"errPass", "errStop", "errThrow"}
Contexts == {Context(Undefined, Undefined, FALSE), Context(Undefined, Undefined, TRUE)}

Anonymous(beh) == ArgFunction(Fn("", beh))

Register ==
  \E beh \in Behaviours :
    calls = <<>> /\ Use(1, Anonymous(beh), ArgUndefined, ArgUndefined)

RegisterError ==
  \E beh \in ErrorBehaviours :
    calls = <<>> /\ UseError(1, Fn("", beh), Undefined)

Start ==
  \E ctx \in Contexts : Len(calls) < MaxCalls /\ InFlight = {} /\ Execute(1, ctx)

Mark == \E c \in 1..Len(calls) : \E f \in 1..Len(calls[c].frames) : HandlerMark(c, f)
SetError == \E c \in 1..Len(calls) : \E f \in 1..Len(calls[c].frames) : HandlerSetError(c, f)
SetPath == \E c \in 1..Len(calls) : \E f \in 1..Len(calls[c].frames) : HandlerSetPath(c, f)
CallNext == \E c \in 1..Len(calls) : \E f \in 1..Len(calls[c].frames) : HandlerNext(c, f)
Throw == \E c \in 1..Len(calls) : \E f \in 1..Len(calls[c].frames) : HandlerThrow(c, f)
Return == \E c \in 1..Len(calls) : \E f \in 1..Len(calls[c].frames) : HandlerReturn(c, f)
Resume == \E c \in 1..Len(calls) : \E f \in 1..Len(calls[c].frames) : HandlerResume(c, f)
AfterHandler == \E c \in 1..Len(calls) : \E f \in 1..Len(calls[c].frames) : NextReturn(c, f)
Catch == \E c \in 1..Len(calls) : \E f \in 1..Len(calls[c].frames) : NextCatch(c, f)
ErrorCallNext == \E c \in 1..Len(calls) : \E f \in 1..Len(calls[c].frames) : ErrorHandlerNext(c, f)
ErrorThrow == \E c \in 1..Len(calls) : \E f \in 1..Len(calls[c].frames) : ErrorHandlerThrow(c, f)
Handled == \E c \in 1..Len(calls) : \E f \in 1..Len(calls[c].frames) : HandleErrorSettled(c, f)

Next ==
  \/ Register
  \/ RegisterError
  \/ Start
  \/ Mark
  \/ SetError
  \/ CallNext
  \/ Throw
  \/ Return
  \/ Resume
  \/ AfterHandler
  \/ Catch
  \/ ErrorCallNext
  \/ ErrorThrow
  \/ Handled

Spec == Init /\ [][Next]_vars

-----------------------------------------------------------------------------
(* SpecMatch: a program registers handlers under conditions and calls      *)
(* execute with contexts that carry, or lack, a path and a method.         *)

MaxConditional == 1

Conditions ==
  {Condition(PathString("/api"), NoMethod, Undefined),
   Condition(PathRegExp("^/api", FALSE, FALSE), NoMethod, Undefined),
   Condition(PathRegExp("/s", TRUE, FALSE), NoMethod, Undefined),
   Condition(PathFunction("longerThan10"), NoMethod, Undefined),
   Condition(NoPath, MethodString("get"), Undefined),
   Condition(NoPath, MethodArray(<<"Post", "PUT">>), Undefined),
   Condition(NoPath, MethodFunction("isGET"), Undefined),
   Condition(NoPath, NoMethod, Some("pathIsSpecial")),
   Condition(NoPath, NoMethod, Undefined),
   Condition(PathString("/api"), MethodString("POST"), Undefined),
   Condition(PathRegExp("/s", FALSE, TRUE), MethodArray(<<"get">>), Some("pathIsSpecial")),
   Condition(PathString("/"), MethodString("get"), Some("noError"))}

MatchContexts ==
  {Context(path, method, FALSE) :
     path \in {Undefined, Some("/api/users/1"), Some("/special"), Some("/API")},
     method \in {Undefined, Some("GET"), Some("post")}}

RegisterConditional ==
  /\ calls = <<>>
  /\ Len(chains[1].middlewares) < MaxConditional
  /\ \/ Use(1, Anonymous("stop"), ArgUndefined, ArgUndefined)
     \/ \E condition \in Conditions :
          Use(1, Anonymous("stop"), ArgObject(condition), ArgUndefined)

StartMatch ==
  \E ctx \in MatchContexts : Len(calls) < MaxCalls /\ InFlight = {} /\ Execute(1, ctx)

NextMatch ==
  \/ RegisterConditional
  \/ StartMatch
  \/ Mark
  \/ Return
  \/ AfterHandler

SpecMatch == Init /\ [][NextMatch]_vars

-----------------------------------------------------------------------------
(* SpecFlight: a program registers handlers, some under a path condition   *)
(* and some that change ctx.path and ctx.method, calls execute once, and   *)
(* while the call is pending registers, inserts and removes handlers and   *)
(* clears the chain.                                                       *)

FlightContexts ==
  {Context(Some("/api/users/1"), Some("GET"), FALSE),
   Context(Some("/special"), Some("GET"), FALSE)}

RegisterFlight ==
  /\ calls = <<>>
  /\ \/ \E beh \in {"pass", "setPath"} : Use(1, Anonymous(beh), ArgUndefined, ArgUndefined)
     \/ Use(1, ArgString("/api"), Anonymous("pass"), ArgUndefined)

StartFlight == \E ctx \in FlightContexts : calls = <<>> /\ Execute(1, ctx)

UseInFlight ==
  /\ InFlight # {}
  /\ \/ Use(1, Anonymous("pass"), ArgUndefined, ArgUndefined)
     \/ Use(1, ArgString("/other"), Anonymous("pass"), ArgUndefined)

InsertInFlight ==
  /\ InFlight # {}
  /\ \E i \in 1..Len(chains[1].middlewares) :
       \/ InsertBefore(1, chains[1].middlewares[i].name, Fn("", "pass"), Undefined, Undefined)
       \/ InsertAfter(1, chains[1].middlewares[i].name, Fn("", "pass"), Undefined, Undefined)

RemoveInFlight ==
  /\ InFlight # {}
  /\ \E i \in 1..Len(chains[1].middlewares) : Remove(1, chains[1].middlewares[i].name)

ClearInFlight == InFlight # {} /\ Clear(1)

NextFlight ==
  \/ RegisterFlight
  \/ StartFlight
  \/ UseInFlight
  \/ InsertInFlight
  \/ RemoveInFlight
  \/ ClearInFlight
  \/ Mark
  \/ SetPath
  \/ CallNext
  \/ Return
  \/ Resume
  \/ AfterHandler

SpecFlight == Init /\ [][NextFlight]_vars

-----------------------------------------------------------------------------
(* SpecChain: a program registers, inserts and removes handlers and error  *)
(* handlers under explicit, function and generated names, turns the        *)
(* performance monitoring on, and calls execute once.                      *)

TargetNames == {"a", "b"}

UseNamed ==
  /\ InFlight = {}
  /\ \/ \E name \in {ArgUndefined, ArgString("a")} :
          Use(1, Anonymous("stop"), ArgUndefined, name)
     \/ Use(1, ArgString("/api"), Anonymous("stop"), ArgString("a"))
     \/ Use(1, ArgFunction(Fn("b", "stop")), ArgUndefined, ArgUndefined)

UseErrorNamed ==
  /\ InFlight = {}
  /\ \E name \in {Undefined, Some("a")} : UseError(1, Fn("", "errStop"), name)

InsertNamed ==
  /\ InFlight = {}
  /\ \E targetName \in TargetNames : \E name \in {Undefined, Some("a")} :
       \/ InsertBefore(1, targetName, Fn("", "stop"), Undefined, name)
       \/ InsertAfter(1, targetName, Fn("", "stop"), Undefined, name)

RemoveNamed == InFlight = {} /\ \E name \in TargetNames : Remove(1, name)

RemoveErrorNamed == InFlight = {} /\ RemoveError(1, "a")

ClearChain == InFlight = {} /\ Clear(1)

Monitor == InFlight = {} /\ EnablePerformanceMonitoring(1)

\* the call is made once the first handler is registered
StartChain ==
  /\ calls = <<>>
  /\ chains[1].enableStats
  /\ Len(chains[1].middlewares) = 1
  /\ chains[1].errorMiddlewares = <<>>
  /\ Execute(1, Context(Undefined, Undefined, FALSE))

NextChain ==
  \/ UseNamed
  \/ UseErrorNamed
  \/ InsertNamed
  \/ RemoveNamed
  \/ RemoveErrorNamed
  \/ ClearChain
  \/ Monitor
  \/ StartChain
  \/ Mark
  \/ Return
  \/ AfterHandler

SpecChain == Init /\ [][NextChain]_vars

-----------------------------------------------------------------------------
(* SpecOverlap: the handlers of one execute call suspend on timers, await  *)
(* next() or call it without await, and throw.                             *)

OverlapBehaviours == {"pass", "stop", "fire", "sleep", "sleepPass", "sleepThrow"}

RegisterOverlap ==
  \E beh \in OverlapBehaviours :
    calls = <<>> /\ Use(1, Anonymous(beh), ArgUndefined, ArgUndefined)

RegisterOverlapError ==
  /\ calls = <<>>
  /\ chains[1].errorMiddlewares = <<>>
  /\ UseError(1, Fn("", "errStop"), Undefined)

StartOverlap == calls = <<>> /\ Execute(1, Context(Undefined, Undefined, FALSE))

Fire == \E c \in 1..Len(calls) : \E f \in 1..Len(calls[c].frames) : HandlerFire(c, f)
FireReturn == \E c \in 1..Len(calls) : \E f \in 1..Len(calls[c].frames) : HandlerFireReturn(c, f)
Sleep == \E c \in 1..Len(calls) : \E f \in 1..Len(calls[c].frames) : HandlerSleep(c, f)
Wake == \E c \in 1..Len(calls) : \E f \in 1..Len(calls[c].frames) : HandlerWake(c, f)

NextOverlap ==
  \/ RegisterOverlap
  \/ RegisterOverlapError
  \/ StartOverlap
  \/ Mark
  \/ CallNext
  \/ Fire
  \/ FireReturn
  \/ Sleep
  \/ Wake
  \/ Throw
  \/ Return
  \/ Resume
  \/ AfterHandler
  \/ Catch
  \/ Handled

SpecOverlap == Init /\ [][NextOverlap]_vars

-----------------------------------------------------------------------------
(* SpecConcurrent: a program calls execute on one chain once with each     *)
(* context, the later call while the earlier one is pending; the handlers  *)
(* suspend before they call next().                                        *)

RegisterConcurrent ==
  /\ calls = <<>>
  /\ \/ Use(1, Anonymous("sleepPass"), ArgUndefined, ArgUndefined)
     \/ Use(1, ArgString("/api"), Anonymous("sleepPass"), ArgUndefined)

StartConcurrent ==
  \E ctx \in FlightContexts :
    /\ \A c \in 1..Len(calls) : calls[c].ctx # ctx
    /\ Execute(1, ctx)

NextConcurrent ==
  \/ RegisterConcurrent
  \/ StartConcurrent
  \/ Sleep
  \/ Wake
  \/ CallNext
  \/ Return
  \/ Resume
  \/ AfterHandler

SpecConcurrent == Init /\ [][NextConcurrent]_vars

-----------------------------------------------------------------------------
(* SpecErrorFlight: while one execute call is pending, with handlers that  *)
(* suspend and then throw, the program registers and removes error         *)
(* handlers and clears the chain.                                          *)

RegisterThrowing ==
  \E beh \in {"sleepThrow", "sleepPass"} :
    calls = <<>> /\ Use(1, Anonymous(beh), ArgUndefined, ArgUndefined)

RegisterErrorBefore ==
  \E beh \in {"errStop", "errPass"} :
    calls = <<>> /\ UseError(1, Fn("", beh), Undefined)

UseErrorInFlight == InFlight # {} /\ UseError(1, Fn("", "errPass"), Undefined)

RemoveErrorInFlight ==
  /\ InFlight # {}
  /\ \E i \in 1..Len(chains[1].errorMiddlewares) :
       RemoveError(1, chains[1].errorMiddlewares[i].name)

NextErrorFlight ==
  \/ RegisterThrowing
  \/ RegisterErrorBefore
  \/ StartOverlap
  \/ UseErrorInFlight
  \/ RemoveErrorInFlight
  \/ ClearInFlight
  \/ Sleep
  \/ Wake
  \/ CallNext
  \/ Throw
  \/ Return
  \/ Resume
  \/ AfterHandler
  \/ Catch
  \/ ErrorCallNext
  \/ Handled

SpecErrorFlight == Init /\ [][NextErrorFlight]_vars

-----------------------------------------------------------------------------
(* SpecInsert: a program registers handlers, inserts handlers before and   *)
(* after registered and unregistered targets, and then calls execute.      *)

RegisterTarget ==
  /\ calls = <<>>
  /\ \E name \in {ArgUndefined, ArgString("a")} :
       Use(1, Anonymous("pass"), ArgUndefined, name)

InsertAtTarget ==
  /\ calls = <<>>
  /\ \E targetName \in {"a", "b", "middleware-0"} :
       \E name \in {Undefined, Some("a"), Some("b")} :
         \/ InsertBefore(1, targetName, Fn("", "pass"), Undefined, name)
         \/ InsertAfter(1, targetName, Fn("", "pass"), Undefined, name)

NextInsert ==
  \/ RegisterTarget
  \/ InsertAtTarget
  \/ StartOverlap
  \/ Mark
  \/ CallNext
  \/ Return
  \/ Resume
  \/ AfterHandler

SpecInsert == Init /\ [][NextInsert]_vars

-----------------------------------------------------------------------------
(* SpecStats: with the performance monitoring on, a program registers      *)
(* handlers that suspend and then go on or throw, and calls execute once   *)
(* with each context, one call after the other or both at a time, while    *)
(* the clock advances.                                                     *)

MonitorFirst == ret.op = "new" /\ EnablePerformanceMonitoring(1)

RegisterTimed ==
  /\ calls = <<>>
  /\ chains[1].enableStats
  /\ \E beh \in {"sleepPass", "sleepThrow"} :
       Use(1, Anonymous(beh), ArgUndefined,
           ArgString(IF chains[1].middlewares = <<>> THEN "a" ELSE "b"))

RegisterTimedError ==
  /\ calls = <<>>
  /\ chains[1].enableStats
  /\ chains[1].errorMiddlewares = <<>>
  /\ UseError(1, Fn("", "errStop"), Undefined)

StartTimed ==
  \E ctx \in FlightContexts :
    /\ chains[1].enableStats
    /\ \A c \in 1..Len(calls) : calls[c].ctx # ctx
    /\ Execute(1, ctx)

Elapse == InFlight # {} /\ Tick

NextStats ==
  \/ MonitorFirst
  \/ RegisterTimed
  \/ RegisterTimedError
  \/ StartTimed
  \/ Elapse
  \/ Sleep
  \/ Wake
  \/ CallNext
  \/ Throw
  \/ Return
  \/ Resume
  \/ AfterHandler
  \/ Catch
  \/ Handled

SpecStats == Init /\ [][NextStats]_vars

-----------------------------------------------------------------------------
(* SpecMonitor: the monitoring is switched on and off at any moment, also  *)
(* while the one call of execute is in flight.                             *)

RegisterMonitored ==
  /\ calls = <<>>
  /\ \E beh \in {"sleepPass", "sleepThrow"} :
       Use(1, Anonymous(beh), ArgUndefined,
           ArgString(IF chains[1].middlewares = <<>> THEN "a" ELSE "b"))

SwitchOn == EnablePerformanceMonitoring(1)

SwitchOff == DisablePerformanceMonitoring(1)

NextMonitor ==
  \/ RegisterMonitored
  \/ RegisterOverlapError
  \/ SwitchOn
  \/ SwitchOff
  \/ StartOverlap
  \/ Elapse
  \/ Sleep
  \/ Wake
  \/ CallNext
  \/ Throw
  \/ Return
  \/ Resume
  \/ AfterHandler
  \/ Catch
  \/ Handled

SpecMonitor == Init /\ [][NextMonitor]_vars

-----------------------------------------------------------------------------
(* SpecManager: a program works on one manager through its methods only,   *)
(* with definitions named "a" or "b" for the chains "default" and "x".     *)

ManagerNames == {"a", "b"}
ManagerChains == {Undefined, Some("x")}
ManagerChainNames == {DefaultChain, "x"}
ManagerPriorities == {Undefined, Some(DefaultPriority - 1)}

Definitions ==
  {Definition(name, Fn("", "pass"), Undefined, priority, chain) :
     name \in ManagerNames, priority \in ManagerPriorities, chain \in ManagerChains}

ManagerRegister ==
  \E definition \in Definitions :
    ManagerApply("register", definition.name, chainOf(definition),
                 register(manager, chains, definition))

ManagerRegisterError ==
  \E chain \in ManagerChains :
    ManagerApply("registerError", "a", chainOf([chain |-> chain]),
                 registerError(manager, chains, ErrorDefinition("a", Fn("", "errStop"), chain)))

ManagerRegisterAll ==
  \E first \in Definitions, second \in Definitions :
    ManagerApply("registerAll", first.name, second.name,
                 registerAll(manager, chains, <<first, second>>))

ManagerRemove ==
  \E name \in ManagerNames :
    ManagerApply("remove", name, "", managerRemove(manager, chains, name))

ManagerClearChain ==
  \E chainName \in ManagerChainNames :
    ManagerApply("clearChain", "", chainName, clearChain(manager, chains, chainName))

ManagerClear == ManagerApply("clear", "", "", managerClear(manager, chains))

ManagerDispose == ManagerApply("dispose", "", "", dispose(manager, chains))

NextManager ==
  \/ ManagerRegister
  \/ ManagerRegisterError
  \/ ManagerRegisterAll
  \/ ManagerRemove
  \/ ManagerClearChain
  \/ ManagerClear
  \/ ManagerDispose

SpecManager == Init /\ [][NextManager]_vars

-----------------------------------------------------------------------------
(* SpecRun: a program registers one batch, "a" before "b" in the array,    *)
(* and error handlers, then executes each chain of the manager, and a      *)
(* chain that does not exist, at most once.                                *)

RunDefinitions(name) ==
  {Definition(name, Fn("", beh), Undefined, priority, chain) :
     beh \in {"pass", "throw"}, priority \in ManagerPriorities, chain \in ManagerChains}

RunRegisterAll ==
  /\ calls = <<>>
  /\ manager.definitions = <<>>
  /\ \E first \in RunDefinitions("a"), second \in RunDefinitions("b") :
       ManagerApply("registerAll", "a", "b",
                    registerAll(manager, chains, <<first, second>>))

RunRegisterError ==
  /\ calls = <<>>
  /\ \E chain \in ManagerChains :
       ManagerApply("registerError", "e", chainOf([chain |-> chain]),
                    registerError(manager, chains,
                                  ErrorDefinition("e", Fn("", "errStop"), chain)))

RunExecute ==
  \E chainName \in ManagerChainNames \cup {"none"} :
    /\ \A c \in 1..Len(calls) : calls[c].chain # chainsGet(manager, chainName)
    /\ ManagerExecute(Context(Undefined, Undefined, FALSE), chainName)

RunMonitor == calls = <<>> /\ ManagerEnablePerformanceMonitoring

RunClearChain ==
  /\ calls # <<>>
  /\ InFlight = {}
  /\ \E chainName \in ManagerChainNames \cup {"none"} :
       ManagerApply("clearChain", "", chainName, clearChain(manager, chains, chainName))

NextRun ==
  \/ RunRegisterAll
  \/ RunMonitor
  \/ RunRegisterError
  \/ RunExecute
  \/ RunClearChain
  \/ Mark
  \/ CallNext
  \/ Throw
  \/ Return
  \/ Resume
  \/ AfterHandler
  \/ Catch
  \/ Handled

SpecRun == Init /\ [][NextRun]_vars

-----------------------------------------------------------------------------
(* SpecOptions: managers made with every choice of options; the program    *)
(* registers handlers and error handlers, switches the monitoring, disposes *)
(* and registers again, and then executes the chains.                      *)

OptionValues == {Undefined, Some(TRUE), Some(FALSE)}

InitOptions ==
  /\ chains = <<NewChain>>
  /\ calls = <<>>
  /\ log = <<>>
  /\ ret = [op |-> "new", name |-> "", target |-> "", result |-> "ok"]
  /\ now = 0
  /\ manager \in {NewManagerWith(Options(enablePerformanceMonitoring, continueOnError)) :
                    enablePerformanceMonitoring \in OptionValues,
                    continueOnError \in OptionValues}

OptRegister ==
  /\ calls = <<>>
  /\ \E beh \in {"pass", "throw"}, chain \in ManagerChains :
       LET name == IF manager.definitions = <<>> THEN "a" ELSE "b"
       IN ManagerApply("register", name, chainOf([chain |-> chain]),
                       register(manager, chains,
                                Definition(name, Fn("", beh), Undefined, Undefined, chain)))

OptRegisterError ==
  /\ calls = <<>>
  /\ ManagerApply("registerError", "e", DefaultChain,
                  registerError(manager, chains,
                                ErrorDefinition("e", Fn("", "errStop"), Undefined)))

OptEnable == calls = <<>> /\ ManagerEnablePerformanceMonitoring

OptDisable == calls = <<>> /\ ManagerDisablePerformanceMonitoring

OptDispose == calls = <<>> /\ ManagerApply("dispose", "", "", dispose(manager, chains))

NextOptions ==
  \/ OptRegister
  \/ OptRegisterError
  \/ OptEnable
  \/ OptDisable
  \/ OptDispose
  \/ RunExecute
  \/ Mark
  \/ CallNext
  \/ Throw
  \/ Return
  \/ Resume
  \/ AfterHandler
  \/ Catch
  \/ Handled

SpecOptions == InitOptions /\ [][NextOptions]_vars

-----------------------------------------------------------------------------
(* SpecRepeat: a program registers a conditional handler and calls execute *)
(* with one context, and once more with the same context when the first    *)
(* call is over, so that matchCondition sees the same condition and        *)
(* context twice.                                                          *)

StartRepeat ==
  /\ InFlight = {}
  /\ \E ctx \in MatchContexts :
       /\ calls = <<>> \/ (Len(calls) = 1 /\ calls[1].ctx = ctx)
       /\ Execute(1, ctx)

NextRepeat ==
  \/ RegisterConditional
  \/ StartRepeat
  \/ Mark
  \/ Return
  \/ AfterHandler

SpecRepeat == Init /\ [][NextRepeat]_vars

-----------------------------------------------------------------------------
(* SpecCursor: a chain of up to MaxMiddlewares + 1 handlers, some of which *)
(* call next() twice or set ctx.error before they call it, and one call.   *)

RegisterCursor ==
  /\ calls = <<>>
  /\ Len(chains[1].middlewares) <= MaxMiddlewares
  /\ \E beh \in {"twice", "stop", "pass", "setError"} :
       Apply(1, "use",
             useName(chains[1], Anonymous(beh), ArgUndefined, ArgUndefined), "",
             use(chains[1], Anonymous(beh), ArgUndefined, ArgUndefined))

NextCursor ==
  \/ RegisterCursor
  \/ StartOverlap
  \/ Mark
  \/ SetError
  \/ CallNext
  \/ Return
  \/ Resume
  \/ AfterHandler

SpecCursor == Init /\ [][NextCursor]_vars

-----------------------------------------------------------------------------
(* SpecErrorOrder: a program registers handlers that throw, some after     *)
(* setting ctx.error, and error handlers that call next(), stop, or set    *)
(* ctx.error and call next(); then it calls execute.                       *)

RegisterFailing ==
  \E beh \in {"pass", "throw", "setThrow"} :
    calls = <<>> /\ Use(1, Anonymous(beh), ArgUndefined, ArgUndefined)

RegisterErrorOrder ==
  \E beh \in {"errPass", "errStop", "errSetError"} :
    /\ calls = <<>>
    /\ Len(chains[1].errorMiddlewares) <= MaxErrorMiddlewares
    /\ UseError(1, Fn("", beh), Undefined)

StartErrorOrder ==
  Len(calls) < MaxCalls /\ InFlight = {} /\ Execute(1, Context(Undefined, Undefined, FALSE))

NextErrorOrder ==
  \/ RegisterFailing
  \/ RegisterErrorOrder
  \/ StartErrorOrder
  \/ Mark
  \/ SetError
  \/ CallNext
  \/ Throw
  \/ Return
  \/ Resume
  \/ AfterHandler
  \/ Catch
  \/ ErrorCallNext
  \/ Handled

SpecErrorOrder == Init /\ [][NextErrorOrder]_vars

-----------------------------------------------------------------------------
(* SpecLive: a program registers handlers that call next() once or twice  *)
(* and throw before or after it, and error handlers, then calls execute;   *)
(* a handler that can take a step takes it (no handler hangs) and a        *)
(* settled promise runs its reaction.                                      *)

RegisterLive ==
  \E beh \in {"pass", "throw", "twice", "throwAfter"} :
    calls = <<>> /\ Use(1, Anonymous(beh), ArgUndefined, ArgUndefined)

HandlerStep ==
  \/ Mark
  \/ CallNext
  \/ Throw
  \/ Return
  \/ ErrorCallNext
  \/ ErrorThrow

Reaction ==
  \/ Resume
  \/ AfterHandler
  \/ Catch
  \/ Handled

NextLive ==
  \/ RegisterLive
  \/ RegisterError
  \/ StartErrorOrder
  \/ HandlerStep
  \/ Reaction

SpecLive == Init /\ [][NextLive]_vars /\ WF_vars(HandlerStep) /\ WF_vars(Reaction)

-----------------------------------------------------------------------------
(* SpecStatsFlight: with the monitoring on, a program registers handlers   *)
(* that suspend, calls execute and, while the call is pending, removes     *)
(* handlers or clears the chain.                                           *)

NextStatsFlight ==
  \/ MonitorFirst
  \/ RegisterMonitored
  \/ StartOverlap
  \/ RemoveInFlight
  \/ ClearInFlight
  \/ Sleep
  \/ Wake
  \/ CallNext
  \/ Throw
  \/ Return
  \/ Resume
  \/ AfterHandler
  \/ Catch

SpecStatsFlight == Init /\ [][NextStatsFlight]_vars

-----------------------------------------------------------------------------
(* SpecPriority: a program registers definitions of several priorities     *)
(* one at a time and in batches, then executes the chains.                 *)

PriorityRegister == calls = <<>> /\ ManagerRegister

PriorityRegisterAll == calls = <<>> /\ ManagerRegisterAll

NextPriority ==
  \/ PriorityRegister
  \/ PriorityRegisterAll
  \/ RunExecute
  \/ Mark
  \/ CallNext
  \/ Return
  \/ Resume
  \/ AfterHandler

SpecPriority == Init /\ [][NextPriority]_vars

-----------------------------------------------------------------------------
(* SpecBatch: a program registers one definition and then calls            *)
(* registerAll with batches of two definitions, of names held or not.      *)

BatchRegister == manager.definitions = <<>> /\ ManagerRegister

BatchRegisterAll == Len(manager.definitions) = 1 /\ ManagerRegisterAll

NextBatch ==
  \/ BatchRegister
  \/ BatchRegisterAll

SpecBatch == Init /\ [][NextBatch]_vars

-----------------------------------------------------------------------------
(* SpecUseName: a program registers handlers with use(handler, name), a    *)
(* handler followed by a string, and calls execute with several contexts.  *)

HandlerName == "my-middleware"

UseHandlerName ==
  calls = <<>> /\ Use(1, Anonymous("pass"), ArgString(HandlerName), ArgUndefined)

UseNameContexts ==
  {Context(path, method, FALSE) :
     path \in {Undefined, Some("/api/users/1"), Some(HandlerName), Some(HandlerName \o "/x")},
     method \in {Undefined, Some("GET")}}

StartUseName ==
  \E ctx \in UseNameContexts : Len(calls) < MaxCalls /\ InFlight = {} /\ Execute(1, ctx)

NextUseName ==
  \/ UseHandlerName
  \/ StartUseName
  \/ Mark
  \/ CallNext
  \/ Return
  \/ Resume
  \/ AfterHandler

SpecUseName == Init /\ [][NextUseName]_vars

-----------------------------------------------------------------------------
(* SpecAutoName: a program registers and inserts anonymous handlers with   *)
(* no name argument and removes handlers by their generated names.         *)

AutoNames == {"middleware-" \o ToString(k) : k \in 0..MaxMiddlewares}
AutoErrorNames == {"error-middleware-" \o ToString(k) : k \in 0..MaxErrorMiddlewares}

AutoUse == Use(1, Anonymous("stop"), ArgUndefined, ArgUndefined)

AutoUseError == UseError(1, Fn("", "errStop"), Undefined)

AutoInsert ==
  \E targetName \in AutoNames :
    \/ InsertBefore(1, targetName, Fn("", "stop"), Undefined, Undefined)
    \/ InsertAfter(1, targetName, Fn("", "stop"), Undefined, Undefined)

AutoRemove == \E name \in AutoNames : Remove(1, name)

AutoRemoveError == \E name \in AutoErrorNames : RemoveError(1, name)

NextAutoName ==
  \/ AutoUse
  \/ AutoUseError
  \/ AutoInsert
  \/ AutoRemove
  \/ AutoRemoveError

SpecAutoName == Init /\ [][NextAutoName]_vars

-----------------------------------------------------------------------------
(* What the claims speak of *)

IsPrefix(a, b) == Len(a) <= Len(b) /\ SubSeq(b, 1, Len(a)) = a
Settled(c) == calls[c].state # "pending"
ChainOf(c) == chains[calls[c].chain]

\* the events of call c of the given kinds, in order
EventsOf(c, kinds) == SelectSeq(log, LAMBDA e : e.call = c /\ e.ev \in kinds)

\* no event of kind later follows an event of kind earlier
NeverAfter(events, earlier, later) ==
  \A i \in 1..Len(events) : \A j \in (i + 1)..Len(events) :
    ~(events[i].ev = earlier /\ events[j].ev = later)

\* every handler of the chain is unconditional and runs before, await next(), after
AllPass(chain) ==
  \A i \in 1..Len(chain.middlewares) :
    /\ chain.middlewares[i].condition = Undefined
    /\ Script(chain.middlewares[i].middleware.beh) = <<"before", "next", "after">>

\* before(h1), ..., before(hn), after(hn), ..., after(h1)
NestedOrder(c, list) ==
  [i \in 1..(2 * Len(list)) |->
     IF i <= Len(list)
       THEN Event(c, "before", list[i].name, NoError)
       ELSE Event(c, "after", list[2 * Len(list) + 1 - i].name, NoError)]

AsError(value) == [isError |-> TRUE, by |-> value.by, wrapped |-> ~value.isError]

\* the next activations of call c that are awaiting handleError
Handling(c) ==
  {f \in 1..Len(calls[c].frames) : calls[c].frames[f].state = "handling"}

\* the error handler first invoked for the activation f, and the error it was given
FirstErrorHandler(c, f) == calls[c].frames[calls[c].frames[f].child]
GivenError(c, f) == calls[c].handlers[FirstErrorHandler(c, f).handler].error

\* C3 (as amended): when a normal handler throws and the chain has an error
\* handler, the first registered error handler is invoked with the thrown error, or
\* with a new Error made of the thrown value when that value is not an Error; and
\* if no error handler throws, execute resolves.
C3_ErrorRouted ==
  \A c \in 1..Len(calls) :
    /\ \A f \in Handling(c) :
         /\ FirstErrorHandler(c, f).kind = "errorNext"
         /\ FirstErrorHandler(c, f).name = ChainOf(c).errorMiddlewares[1].name
         /\ GivenError(c, f) = AsError(calls[c].frames[f].error)
    /\ ( /\ Settled(c)
         /\ EventsOf(c, {"throw"}) # <<>>
         /\ ChainOf(c).errorMiddlewares # <<>>
         /\ EventsOf(c, {"throwError"}) = <<>> ) => calls[c].state = "resolved"

\* C3 as stated: the error handler is given the very value the handler threw
C3_GivenThrownValue ==
  \A c \in 1..Len(calls) : \A f \in Handling(c) :
    GivenError(c, f) = calls[c].frames[f].error

C3_Witness ==
  \E c \in 1..Len(calls) :
    /\ calls[c].state = "resolved"
    /\ EventsOf(c, {"throw"}) # <<>>
    /\ Len(ChainOf(c).errorMiddlewares) = 2
    /\ Len(EventsOf(c, {"invokeError"})) = 2

C5_ErrorHandlerThrowIsFinal ==
  \A c \in 1..Len(calls) :
    /\ NeverAfter(EventsOf(c, {"throwError", "invokeError"}), "throwError", "invokeError")
    /\ Settled(c) /\ EventsOf(c, {"throwError"}) # <<>> =>
         /\ calls[c].state = "rejected"
         /\ calls[c].error = AsError(EventsOf(c, {"throwError"})[1].error)

\* two strings that differ at most in the case of their letters
SameLetters(a, b) ==
  /\ Len(a) = Len(b)
  /\ \A i \in 1..Len(a) :
       \/ SubSeq(a, i, i) = SubSeq(b, i, i)
       \/ \E j \in 1..Len(Upper) :
            {SubSeq(a, i, i), SubSeq(b, i, i)} = {SubSeq(Upper, j, j), SubSeq(Lower, j, j)}

\* the path constraint of a condition, as the claim words it
PathHolds(condition, ctx) ==
  \/ condition.path.t = "undefined"
  \/ ctx.path = Undefined
  \/ /\ condition.path.t = "string"
     /\ \E n \in 0..Len(ctx.path[1]) : SubSeq(ctx.path[1], 1, n) = condition.path.s
  \/ /\ condition.path.t = "regexp"
     /\ RegExpTest(condition.path, ctx.path[1])
  \/ /\ condition.path.t = "function"
     /\ PathFn(condition.path.s, ctx.path[1])

\* the method constraint of a condition, as the claim words it
MethodHolds(condition, ctx) ==
  \/ condition.method.t = "undefined"
  \/ ctx.method = Undefined
  \/ /\ condition.method.t = "string"
     /\ SameLetters(condition.method.s, ctx.method[1])
  \/ /\ condition.method.t = "array"
     /\ \E i \in 1..Len(condition.method.a) : SameLetters(condition.method.a[i], ctx.method[1])
  \/ /\ condition.method.t = "function"
     /\ MethodFn(condition.method.s, ctx.method[1])

TakesPart(registration, ctx) ==
  \/ registration.condition = Undefined
  \/ /\ PathHolds(registration.condition[1], ctx)
     /\ MethodHolds(registration.condition[1], ctx)
     /\ \/ registration.condition[1].match = Undefined
        \/ MatchFn(registration.condition[1].match[1], ctx)

\* C6: the handlers an execute(ctx) call works with are exactly the registered
\* handlers, in order, that have no condition or whose path constraint (string:
\* prefix of ctx.path, regular expression: its test, function: its result), method
\* constraint (string or array: equal but for case, function: its result) and
\* match(ctx) all hold, an omitted constraint holding and a path or method
\* constraint holding when ctx.path or ctx.method is absent.
C6_TakesPartWhenMatched ==
  [][\A c \in (Len(calls) + 1)..Len(calls') :
       calls'[c].matchedMiddlewares =
         SelectSeq(chains[calls'[c].chain].middlewares,
                   LAMBDA registration : TakesPart(registration, calls'[c].ctx))]_vars

C6_Witness ==
  \E c \in 1..Len(calls) :
    /\ Len(calls[c].matchedMiddlewares) = 1
    /\ calls[c].matchedMiddlewares[1].condition # Undefined
    /\ calls[c].matchedMiddlewares[1].condition[1].path.t # "undefined"
    /\ calls[c].matchedMiddlewares[1].condition[1].method.t # "undefined"
    /\ calls[c].matchedMiddlewares[1].condition[1].match # Undefined
    /\ calls[c].ctx.path # Undefined
    /\ calls[c].ctx.method # Undefined
    /\ \E i \in 1..Len(log) : log[i].call = c /\ log[i].ev = "invoke"


\* the names of the registrations of a list, in order
NameList(list) == [i \in 1..Len(list) |-> list[i].name]

\* the names of the handlers call c has invoked according to log l, in order
InvokedNames(l, c) ==
  LET invoked == SelectSeq(l, LAMBDA e : e.call = c /\ e.ev = "invoke")
  IN [i \in 1..Len(invoked) |-> invoked[i].name]

\* C7: the handlers an execute call works with are selected when the call starts,
\* from the chain and the ctx of that moment, and stay the same whatever a handler
\* does to ctx.path or ctx.method and whatever use, insertBefore, insertAfter,
\* remove or clear do to the chain meanwhile: the handlers invoked so far are
\* always the first of that selection, in order, and a call that resolves after
\* every handler called next() has invoked exactly that selection.
C7_FixedAtStart ==
  [][\A c \in 1..Len(calls') :
       LET selected ==
             IF c <= Len(calls)
               THEN calls[c].matchedMiddlewares
               ELSE SelectSeq(chains[calls'[c].chain].middlewares,
                              LAMBDA registration : TakesPart(registration, calls'[c].ctx))
       IN /\ calls'[c].matchedMiddlewares = selected
          /\ IsPrefix(InvokedNames(log', c), NameList(selected))
          /\ calls'[c].state = "resolved" => InvokedNames(log', c) = NameList(selected)]_vars

C7_Witness ==
  \E c \in 1..Len(calls) :
    /\ calls[c].state = "resolved"
    /\ Len(calls[c].matchedMiddlewares) >= 2
    /\ InvokedNames(log, c) = NameList(calls[c].matchedMiddlewares)
    /\ calls[c].ctx.path = Some("/other")
    /\ NameList(chains[calls[c].chain].middlewares) # NameList(calls[c].matchedMiddlewares)
    /\ filterMatched(chains[calls[c].chain].middlewares, calls[c].ctx)
         # calls[c].matchedMiddlewares


\* a step in which a method of the chain other than execute was called
MethodCalled == calls' = calls

Raised == ret'.result = "duplicate"

\* C8 (as amended): use (both overloads) raises the duplicate-name error exactly
\* when the name it resolves is already the name of a normal handler, useError
\* exactly when it is already the name of an error handler, and insertBefore and
\* insertAfter exactly when the target is registered and the resolved name is
\* already the name of a normal handler; a call that raises it leaves the handler
\* lists, their order and the stats table as they were.
C8_DuplicateName ==
  [][MethodCalled =>
       /\ ret'.op = "use" =>
            (Raised <=> ret'.name \in Names(chains[1].middlewares))
       /\ ret'.op = "useError" =>
            (Raised <=> ret'.name \in Names(chains[1].errorMiddlewares))
       /\ ret'.op \in {"insertBefore", "insertAfter"} =>
            (Raised <=> /\ ret'.target \in Names(chains[1].middlewares)
                        /\ ret'.name \in Names(chains[1].middlewares))
       /\ Raised => chains' = chains]_vars

\* C8 as stated: insertBefore and insertAfter raise the duplicate-name error
\* whenever the resolved name is already the name of a normal handler
C8_InsertAlwaysRaises ==
  [][MethodCalled /\ ret'.op \in {"insertBefore", "insertAfter"} =>
       (Raised <=> ret'.name \in Names(chains[1].middlewares))]_vars

C8_Witness ==
  /\ ret.op = "insertAfter"
  /\ ret.result = "duplicate"
  /\ Len(chains[1].middlewares) = 2
  /\ chains[1].errorMiddlewares # <<>>
  /\ chains[1].stats # <<>>

\* C9: no two normal handlers of a chain share a name and no two error handlers
\* of a chain share a name, whatever use, useError, insertBefore, insertAfter,
\* remove, removeError and clear were called; a normal handler and an error
\* handler may hold the same name (the witness).
C9_UniqueNames ==
  \A k \in 1..Len(chains) :
    /\ \A i, j \in 1..Len(chains[k].middlewares) :
         chains[k].middlewares[i].name = chains[k].middlewares[j].name => i = j
    /\ \A i, j \in 1..Len(chains[k].errorMiddlewares) :
         chains[k].errorMiddlewares[i].name = chains[k].errorMiddlewares[j].name => i = j

C9_Witness ==
  \E k \in 1..Len(chains) :
    /\ Len(chains[k].middlewares) = 2
    /\ Len(chains[k].errorMiddlewares) = 2
    /\ \E i \in 1..Len(chains[k].middlewares) : \E j \in 1..Len(chains[k].errorMiddlewares) :
         chains[k].middlewares[i].name = chains[k].errorMiddlewares[j].name
    /\ ret.op = "insertBefore"
    /\ ret.result = "true"

\* how many times the script of a handler runs await next()
NextSteps(beh) == Cardinality({i \in 1..Len(Script(beh)) : Script(beh)[i] = "next"})

\* the activations whose handler has returned without ever calling next()
ReturnedWithoutNext(c) ==
  {f \in 1..Len(calls[c].frames) :
     /\ calls[c].frames[f].kind = "next"
     /\ NextSteps(calls[c].frames[f].middleware.beh) = 0
     /\ calls[c].frames[f].state \in {"returned", "resolved"}}

AllEvents(c) == SelectSeq(log, LAMBDA e : e.call = c)

\* what call c did after it invoked the handler of activation f
Later(c, f) ==
  LET events == AllEvents(c)
      i == CHOOSE j \in 1..Len(events) :
             events[j].ev = "invoke" /\ events[j].name = calls[c].frames[f].name
  IN SubSeq(events, i + 1, Len(events))

Has(events, kinds) == \E i \in 1..Len(events) : events[i].ev \in kinds

Unfinished(frame) == frame.state \in {"running", "calling", "awaiting", "sleeping"}

\* every handler call c works with awaits the next() it calls
AwaitsEveryNext(c) ==
  \A i \in 1..Len(calls[c].matchedMiddlewares) :
    \A j \in 1..Len(Script(calls[c].matchedMiddlewares[i].middleware.beh)) :
      Script(calls[c].matchedMiddlewares[i].middleware.beh)[j] # "fire"

\* in this step no handler of call c goes on while a handler it invoked through
\* next() is unfinished, and no handler is unfinished once the call has settled
Sequential(c) ==
  /\ \A f, g \in 1..Len(calls[c].frames) :
       ( /\ calls[c].frames[g].kind = "next"
         /\ calls[c].frames[g].parent = f
         /\ Unfinished(calls[c].frames[g]) ) => calls'[c].frames[f] = calls[c].frames[f]
  /\ calls'[c].state # "pending" =>
       \A f \in 1..Len(calls'[c].frames) : ~Unfinished(calls'[c].frames[f])

\* C11 (as amended): in an execute call whose handlers await every next() they
\* call, a handler takes no step while the handler it invoked through next() is
\* unfinished, and no handler of the call is unfinished when execute settles.
C11_NoOverlap ==
  [][\A c \in 1..Len(calls) : AwaitsEveryNext(c) => Sequential(c)]_vars

\* C11 as stated: the same for every handler behaviour, next() without await too
C11_NoOverlapAnyBehaviour ==
  [][\A c \in 1..Len(calls) : Sequential(c)]_vars

\* a handler suspended, awaited next(), and the handler behind it suspended too
C11_Witness ==
  \E c \in 1..Len(calls) :
    /\ calls[c].state = "resolved"
    /\ AwaitsEveryNext(c)
    /\ Len(calls[c].frames) = 2
    /\ calls[c].frames[1].middleware.beh = "sleepPass"
    /\ calls[c].frames[2].middleware.beh = "sleep"
    /\ calls[c].frames[2].state = "resolved"


\* the names of the handlers of the chain that match the ctx of call c, in order
OwnHandlers(c) ==
  NameList(SelectSeq(ChainOf(c).middlewares,
                     LAMBDA registration : TakesPart(registration, calls[c].ctx)))

\* C12: of execute calls that run interleaved on one chain, each invokes the
\* handlers that match its own ctx, in list order and each once: what a call has
\* invoked so far is the beginning of that list, and all of it once it resolved.
C12_IndependentCalls ==
  \A c \in 1..Len(calls) :
    /\ IsPrefix(InvokedNames(log, c), OwnHandlers(c))
    /\ calls[c].state = "resolved" => InvokedNames(log, c) = OwnHandlers(c)

\* two calls with different handler lists were both between two of their handlers
\* at the same time, and both resolved
C12_Witness ==
  /\ Len(calls) >= 2
  /\ calls[1].state = "resolved"
  /\ calls[2].state = "resolved"
  /\ Len(OwnHandlers(1)) = 2
  /\ OwnHandlers(1) # OwnHandlers(2)
  /\ OwnHandlers(2) # <<>>
  /\ \E i, j \in 1..Len(log) :
       /\ i < j
       /\ log[i].call = 1 /\ log[j].call = 1
       /\ \E m \in (i + 1)..(j - 1) : log[m].call = 2


\* the names of the events of call c of one kind, in order
NamesOf(c, kind) ==
  [i \in 1..Len(EventsOf(c, {kind})) |-> EventsOf(c, {kind})[i].name]

\* C13: the error handlers an execute call runs when a handler throws are those
\* registered when the call started, whatever useError, removeError and clear did
\* meanwhile: the error handlers it invokes are the first of that list, in order;
\* the first one is invoked when the list was not empty, and the call rejects
\* when it was empty.
C13_ErrorHandlersFixedAtStart ==
  \A c \in 1..Len(calls) :
    /\ IsPrefix(NamesOf(c, "invokeError"), NamesOf(c, "registeredError"))
    /\ ( Settled(c) /\ EventsOf(c, {"throw"}) # <<>> ) =>
         IF NamesOf(c, "registeredError") = <<>>
           THEN calls[c].state = "rejected"
           ELSE NamesOf(c, "invokeError") # <<>>


\* list new is list old with one registration named name put in at position i
PutIn(old, new, i, name) ==
  /\ Len(new) = Len(old) + 1
  /\ i \in 1..Len(new)
  /\ new[i].name = name
  /\ old = [j \in 1..Len(old) |-> IF j < i THEN new[j] ELSE new[j + 1]]

\* the insertBefore or insertAfter call of this step returned true and put the
\* new registration right before, or right after, the target
Inserted ==
  /\ ret'.result = "true"
  /\ chains' = [chains EXCEPT ![1].middlewares = chains'[1].middlewares]
  /\ \E i \in 1..Len(chains'[1].middlewares) :
       /\ PutIn(chains[1].middlewares, chains'[1].middlewares, i, ret'.name)
       /\ IF ret'.op = "insertBefore"
            THEN i < Len(chains'[1].middlewares)
                 /\ chains'[1].middlewares[i + 1].name = ret'.target
            ELSE i > 1 /\ chains'[1].middlewares[i - 1].name = ret'.target

\* every call has invoked the first handlers of the list, all of them once resolved
FollowsListOrder ==
  \A c \in 1..Len(calls') :
    /\ IsPrefix(InvokedNames(log', c), NameList(chains'[1].middlewares))
    /\ calls'[c].state = "resolved" =>
         InvokedNames(log', c) = NameList(chains'[1].middlewares)

\* C14 (as amended): insertBefore and insertAfter return false and change nothing
\* when the target is not registered, also when the new name is taken; when the
\* target is registered they raise the duplicate-name error and change nothing if
\* the new name is taken, and otherwise return true with the new registration
\* right before (after) the target and the other handlers in their order; execute
\* invokes the handlers in the order of the list.
C14_InsertAtTarget ==
  [][/\ (MethodCalled /\ ret'.op \in {"insertBefore", "insertAfter"}) =>
          IF ret'.target \notin Names(chains[1].middlewares)
            THEN ret'.result = "false" /\ chains' = chains
          ELSE IF ret'.name \in Names(chains[1].middlewares)
            THEN ret'.result = "duplicate" /\ chains' = chains
          ELSE Inserted
     /\ FollowsListOrder]_vars

\* C14 as stated: they return true whenever the target is registered
C14_TrueWheneverTargetExists ==
  [][(MethodCalled /\ ret'.op \in {"insertBefore", "insertAfter"}) =>
       IF ret'.target \notin Names(chains[1].middlewares)
         THEN ret'.result = "false" /\ chains' = chains
         ELSE Inserted]_vars

\* b was inserted before a, and execute ran b and then a
C14_Witness ==
  \E c \in 1..Len(calls) :
    /\ calls[c].state = "resolved"
    /\ InvokedNames(log, c) = <<"b", "a">>
    /\ EventsOf(c, {"before"})[1].name = "b"


\* list new is list old without its one registration named name
TakenOut(old, new, name) ==
  /\ \E i \in 1..Len(old) : PutIn(new, old, i, name)
  /\ \A i \in 1..Len(new) : new[i].name # name

\* C15: remove(name) returns true, takes exactly the normal handler called name
\* out of the list, the others keeping their order, and deletes its stats entry
\* and nothing else, when such a handler is registered; otherwise it returns false
\* and changes nothing; so a remove(name) right after a successful one returns
\* false. removeError does the same with the error handlers and leaves the normal
\* handlers and the stats alone.
C15_Remove ==
  [][MethodCalled =>
       /\ ret'.op = "remove" =>
            IF ret'.name \in Names(chains[1].middlewares)
              THEN /\ ret'.result = "true"
                   /\ TakenOut(chains[1].middlewares, chains'[1].middlewares, ret'.name)
                   /\ chains'[1].stats =
                        SelectSeq(chains[1].stats, LAMBDA entry : entry.name # ret'.name)
                   /\ chains'[1].errorMiddlewares = chains[1].errorMiddlewares
                   /\ chains'[1].enableStats = chains[1].enableStats
                   /\ remove(chains'[1], ret'.name).result = "false"
              ELSE ret'.result = "false" /\ chains' = chains
       /\ ret'.op = "removeError" =>
            IF ret'.name \in Names(chains[1].errorMiddlewares)
              THEN /\ ret'.result = "true"
                   /\ TakenOut(chains[1].errorMiddlewares, chains'[1].errorMiddlewares,
                               ret'.name)
                   /\ chains' = [chains EXCEPT
                                   ![1].errorMiddlewares = chains'[1].errorMiddlewares]
                   /\ removeError(chains'[1], ret'.name).result = "false"
              ELSE ret'.result = "false" /\ chains' = chains]_vars

\* a handler was removed while another handler, which execute ran with the
\* monitoring on, stays with its stats entry
C15_Witness ==
  /\ ret.op = "remove"
  /\ ret.result = "true"
  /\ Len(chains[1].stats) = 1
  /\ chains[1].stats[1].name # ret.name
  /\ chains[1].stats[1].name \in Names(chains[1].middlewares)
  /\ ret.name \in Names(chains[1].errorMiddlewares)

\* the invocations of the normal handler called name, in any call
Invocations(name) ==
  {cf \in UNION {{<<c, f>> : f \in 1..Len(calls[c].frames)} : c \in 1..Len(calls)} :
     /\ calls[cf[1]].frames[cf[2]].kind = "next"
     /\ calls[cf[1]].frames[cf[2]].name = name}

InvocationAt(cf) == calls[cf[1]].frames[cf[2]]

\* those that completed without throwing, and those that threw
Completed(name) == {cf \in Invocations(name) : InvocationAt(cf).duration # Undefined}
Thrown(name) == {cf \in Invocations(name) : InvocationAt(cf).caught}

RECURSIVE SumOfDurations(_)
SumOfDurations(S) ==
  IF S = {} THEN 0
  ELSE LET cf == CHOOSE x \in S : TRUE
       IN InvocationAt(cf).duration[1] + SumOfDurations(S \ {cf})

StatsOf(name) == chains[1].stats[FindIndex(chains[1].stats, name)]

\* C16: with the monitoring on, a handler invoked N times without throwing,
\* in calls that follow or overlap one another, has count = N, errorCount = 0
\* and totalTime = the sum of the N recorded durations; every invocation that
\* throws adds exactly 1 to errorCount.
C16_StatsCount ==
  \A name \in {"a", "b"} :
    LET N == Cardinality(Completed(name))
        E == Cardinality(Thrown(name))
    IN /\ N + E = 0 => FindIndex(chains[1].stats, name) = 0
       /\ N + E > 0 =>
            /\ FindIndex(chains[1].stats, name) # 0
            /\ StatsOf(name).errorCount = E
            /\ StatsOf(name).totalTime = SumOfDurations(Completed(name))
            /\ E = 0 =>
                 /\ StatsOf(name).count = N
                 /\ StatsOf(name).errorCount = 0

\* two overlapping calls both completed the handler "a", after different
\* times, and one invocation of "b" threw
C16_Witness ==
  /\ Len(calls) = 2
  /\ Cardinality(Completed("a")) = 2
  /\ StatsOf("a").count = 2
  /\ StatsOf("a").totalTime = 3
  /\ calls[2].frames[1].startTime
       < calls[1].frames[1].startTime + calls[1].frames[1].duration[1]
  /\ Cardinality(Thrown("b")) >= 1
  /\ StatsOf("b").errorCount >= 1

Switched == ret'.op \in {"enablePerformanceMonitoring", "disablePerformanceMonitoring"}

\* C17: a step of execute taken while the monitoring is off creates and
\* updates no stats entry; enablePerformanceMonitoring and
\* disablePerformanceMonitoring change neither the stats entries nor the
\* handler lists.
C17_MonitoringOff ==
  [][/\ (~MethodCalled /\ ~chains[1].enableStats) =>
          chains'[1].stats = chains[1].stats
     /\ (MethodCalled /\ Switched) =>
          /\ chains'[1].stats = chains[1].stats
          /\ chains'[1].middlewares = chains[1].middlewares
          /\ chains'[1].errorMiddlewares = chains[1].errorMiddlewares]_vars

\* the monitoring was switched off while the call was in flight: a handler
\* that completed before has its entry, one that completed after has none,
\* and the entry outlasted the switch
C17_Witness ==
  /\ ret.op = "disablePerformanceMonitoring"
  /\ ~chains[1].enableStats
  /\ Len(calls) = 1
  /\ calls[1].state = "resolved"
  /\ Len(calls[1].frames) >= 2
  /\ Len(chains[1].stats) = 1
  /\ chains[1].stats[1].count = 1
  /\ \E f \in 1..Len(calls[1].frames) :
       /\ calls[1].frames[f].kind = "next"
       /\ calls[1].frames[f].state = "resolved"
       /\ FindIndex(chains[1].stats, calls[1].frames[f].name) = 0

Cleared == ret'.op = "clear"

\* C18: clear() empties the normal handlers, the error handlers and the stats
\* table and leaves the monitoring flag as it was; a second clear() changes
\* nothing more, both counts are 0, and every name that was in use before can
\* be registered again.
C18_Clear ==
  [][(MethodCalled /\ Cleared) =>
       /\ chains'[1].middlewares = <<>>
       /\ chains'[1].errorMiddlewares = <<>>
       /\ chains'[1].stats = <<>>
       /\ chains'[1].enableStats = chains[1].enableStats
       /\ clear(chains'[1]) = chains'[1]
       /\ \A name \in Names(chains[1].middlewares) :
            use(chains'[1], Anonymous("stop"), ArgUndefined, ArgString(name)).result = "ok"
       /\ \A name \in Names(chains[1].errorMiddlewares) :
            useError(chains'[1], Fn("", "errStop"), Some(name)).result = "ok"]_vars

\* clear() has emptied a chain with the monitoring on whose handler had run
\* and been recorded in a finished call
C18_Witness ==
  /\ ret.op = "clear"
  /\ chains[1].enableStats
  /\ chains[1].middlewares = <<>>
  /\ chains[1].stats = <<>>
  /\ Len(calls) = 1
  /\ calls[1].state = "resolved"
  /\ Len(calls[1].frames) = 1
  /\ calls[1].frames[1].duration # Undefined

Registering == ret'.op = "register"

\* C19: register(definition) raises the duplicate-name error when a
\* definition of that name exists in the manager, whatever its chain, and
\* then changes nothing: the definition table, the chain registry and every
\* chain are as before.
C19_RegisterDuplicate ==
  [][(Registering /\ ret'.name \in Names(manager.definitions)) =>
       /\ ret'.result = "duplicate"
       /\ manager' = manager
       /\ chains' = chains]_vars

\* the name was taken by a definition of another chain, and the chain asked
\* for does not exist
C19_Witness ==
  /\ ret.op = "register"
  /\ ret.result = "duplicate"
  /\ ret.name \in Names(manager.definitions)
  /\ chainOf(manager.definitions[FindIndex(manager.definitions, ret.name)]) # ret.target
  /\ chainsGet(manager, ret.target) = 0

DefinedIn(chainName) ==
  {manager.definitions[i].name :
     i \in {j \in 1..Len(manager.definitions) :
              chainOf(manager.definitions[j]) = chainName}}

HeldBy(chainName) ==
  IF chainsGet(manager, chainName) = 0 THEN {}
  ELSE Names(chains[chainsGet(manager, chainName)].middlewares)

RECURSIVE HandlersUpTo(_)
HandlersUpTo(i) ==
  IF i = 0 THEN 0
  ELSE Len(chains[manager.chains[i].chain].middlewares) + HandlersUpTo(i - 1)

BatchNames == {"a", "b", "c"}

BatchDefinitions ==
  {Definition(name, Fn("", "pass"), Undefined, priority, chain) :
     name \in BatchNames, priority \in ManagerPriorities, chain \in ManagerChains}

\* arrays of one to three definitions of different names
Batches ==
  {batch \in UNION {[1..n -> BatchDefinitions] : n \in 1..Cardinality(BatchNames)} :
     \A i, j \in 1..Len(batch) : i # j => batch[i].name # batch[j].name}

PlaceIn(batch, name) == CHOOSE i \in 1..Len(batch) : batch[i].name = name

\* batch[i] is registered before batch[j]: smaller priority first, input
\* order among equals
ComesFirst(batch, i, j) ==
  \/ priorityOf(batch[i]) < priorityOf(batch[j])
  \/ priorityOf(batch[i]) = priorityOf(batch[j]) /\ i < j

ListedInPriorityOrder(batch, chainName) ==
  LET old == listByChain(manager, chains, chainName)
      done == registerAll(manager, chains, batch)
      new == listByChain(done.manager, done.heap, chainName)
      added == SubSeq(new, Len(old) + 1, Len(new))
  IN /\ done.result = "ok"
     /\ SubSeq(new, 1, Len(old)) = old
     /\ {added[p] : p \in 1..Len(added)}
          = {batch[i].name : i \in {j \in 1..Len(batch) : chainOf(batch[j]) = chainName}}
     /\ \A p, q \in 1..Len(added) :
          p < q => ComesFirst(batch, PlaceIn(batch, added[p]), PlaceIn(batch, added[q]))

\* C21: registerAll(defs) on a manager that holds none of the names of defs
\* registers them by ascending priority, a missing priority counting as 100
\* and equal priorities keeping the input order: in every chain the handlers
\* of the batch are listed in that order after the handlers the chain had,
\* and an execute invokes the handlers in the order of the list.
C21_RegisterAllByPriority ==
  /\ calls = <<>> =>
       \A batch \in Batches :
         (\A i \in 1..Len(batch) : ~has(manager.definitions, batch[i].name)) =>
           \A chainName \in ManagerChainNames : ListedInPriorityOrder(batch, chainName)
  /\ \A c \in 1..Len(calls) :
       calls[c].chain # 0 =>
         /\ IsPrefix(InvokedNames(log, c), NameList(calls[c].matchedMiddlewares))
         /\ ChainOf(c).middlewares # <<>> =>
              calls[c].matchedMiddlewares = ChainOf(c).middlewares

\* the batch <<a, b>> was registered with b first, both in one chain, and an
\* execute of that chain invoked b and then a
C21_Witness ==
  /\ Len(manager.definitions) = 2
  /\ manager.definitions[1].name = "b"
  /\ priorityOf(manager.definitions[1]) < priorityOf(manager.definitions[2])
  /\ \E c \in 1..Len(calls) :
       /\ calls[c].state = "resolved"
       /\ InvokedNames(log, c) = <<"b", "a">>

Executing == ret'.op = "execute" /\ Len(calls') = Len(calls) + 1

\* the chains that a step of the calls may touch: those of the calls it moved
Moved ==
  {calls'[c].chain : c \in {d \in 1..Len(calls') : d > Len(calls) \/ calls'[d] # calls[d]}}

\* C22: execute(ctx, c) of the manager runs the chain that c names: it
\* invokes handlers and error handlers of that chain only and leaves the
\* handler lists and stats of every other chain as they are; when no chain
\* is called c it resolves at once, invokes nothing, raises nothing and
\* creates no chain.
C22_ExecuteOneChain ==
  [][/\ Executing =>
          /\ calls'[Len(calls')].chain = chainsGet(manager, ret'.target)
          /\ manager' = manager
          /\ Len(chains') = Len(chains)
          /\ chainsGet(manager, ret'.target) = 0 =>
               /\ calls'[Len(calls')].state = "resolved"
               /\ calls'[Len(calls')].frames = <<>>
               /\ log' = log
               /\ chains' = chains
     /\ calls' # calls =>
          /\ \A k \in 1..Len(chains) : chains'[k] # chains[k] => k \in Moved
          /\ \A i \in (Len(log) + 1)..Len(log') :
               /\ log'[i].ev = "invoke" =>
                    log'[i].name \in Names(chains[calls'[log'[i].call].chain].middlewares)
               /\ log'[i].ev = "invokeError" =>
                    log'[i].name \in Names(chains[calls'[log'[i].call].chain].errorMiddlewares)]_vars

\* with the monitoring on, the chain "x" was executed and its handler threw
\* with no error handler of its own, while the chain "default" holds an error
\* handler and a handler that were not touched; a call for a chain that does
\* not exist is resolved
C22_Witness ==
  /\ chainsGet(manager, "x") # 0
  /\ chainsGet(manager, DefaultChain) # 0
  /\ manager.enablePerformanceMonitoring
  /\ chains[chainsGet(manager, "x")].errorMiddlewares = <<>>
  /\ Len(chains[chainsGet(manager, "x")].stats) = 1
  /\ Len(chains[chainsGet(manager, DefaultChain)].middlewares) = 1
  /\ Len(chains[chainsGet(manager, DefaultChain)].errorMiddlewares) = 1
  /\ chains[chainsGet(manager, DefaultChain)].stats = <<>>
  /\ Len(calls) = 2
  /\ calls[1].chain = chainsGet(manager, "x")
  /\ calls[1].state = "rejected"
  /\ calls[2].chain = 0
  /\ calls[2].state = "resolved"
  /\ \A i \in 1..Len(log) : log[i].ev # "invokeError"

ClearingChain == ret'.op = "clearChain"

\* C23: clearChain(c) on an existing chain takes every normal handler, error
\* handler and stats entry out of chain c and exactly the definitions whose
\* chain is c out of the table; every other chain and every other definition
\* is as before, and clearChain of a name no chain has changes nothing.
C23_ClearChain ==
  [][ClearingChain =>
       LET k == chainsGet(manager, ret'.target)
       IN /\ k = 0 => manager' = manager /\ chains' = chains
          /\ k # 0 =>
               /\ chains'[k].middlewares = <<>>
               /\ chains'[k].errorMiddlewares = <<>>
               /\ chains'[k].stats = <<>>
               /\ manager'.definitions
                    = SelectSeq(manager.definitions,
                                LAMBDA definition : definition.chain # Some(ret'.target))
               /\ \A other \in 1..Len(chains) : other # k => chains'[other] = chains[other]
               /\ Len(chains') = Len(chains)]_vars

\* the chain "x" was cleared after a recorded run, and the chain "default"
\* still has its definition, its handler and its stats entry
C23_Witness ==
  /\ ret.op = "clearChain"
  /\ ret.target = "x"
  /\ chainsGet(manager, DefaultChain) # 0
  /\ NameList(manager.definitions) = listByChain(manager, chains, DefaultChain)
  /\ Len(manager.definitions) = 1
  /\ Len(chains[chainsGet(manager, DefaultChain)].stats) = 1
  /\ \E c \in 1..Len(calls) :
       /\ calls[c].chain # chainsGet(manager, DefaultChain)
       /\ Len(calls[c].frames) >= 1
       /\ calls[c].frames[1].caught
       /\ Len(calls[c].handlers) = 1
       /\ chains[calls[c].chain].errorMiddlewares = <<>>
       /\ chains[calls[c].chain].stats = <<>>

Listed(m, chainName) ==
  /\ chainsGet(m, chainName) # 0
  /\ \E i \in 1..getChainCount(m) : listChains(m)[i] = chainName

\* C24: a chain is listed by listChains, returned by getChain and counted by
\* getChainCount from the first register or registerError that names it;
\* clearChain and clear() empty it and leave it listed, the same object as
\* before, and dispose() alone takes every chain out of the registry.
C24_ChainLifetime ==
  [][/\ (ret'.op \in {"register", "registerError"} /\ ret'.result = "ok") =>
          Listed(manager', ret'.target)
     /\ ret'.op # "dispose" => IsPrefix(manager.chains, manager'.chains)
     /\ ret'.op \in {"clearChain", "clear"} =>
          /\ manager'.chains = manager.chains
          /\ \A i \in 1..getChainCount(manager) :
               chains'[manager.chains[i].chain].middlewares = <<>>
                 \/ (ret'.op = "clearChain" /\ manager.chains[i].name # ret'.target)
     /\ ret'.op = "dispose" =>
          /\ getChainCount(manager') = 0
          /\ listChains(manager') = <<>>]_vars

\* C24 as stated: after clearChain of its name, clear() or dispose() the
\* chain is no longer listed.
C24_ClearUnlists ==
  [][/\ ret'.op = "clearChain" => ~Listed(manager', ret'.target)
     /\ ret'.op \in {"clear", "dispose"} => getChainCount(manager') = 0]_vars

\* clearChain("x") has emptied the chain "x", which is still listed next to
\* the chain "default" and its handler
C24_Witness ==
  /\ ret.op = "clearChain"
  /\ ret.target = "x"
  /\ Listed(manager, "x")
  /\ chains[chainsGet(manager, "x")] = NewChain
  /\ getChainCount(manager) = 2
  /\ getMiddlewareCount(manager) = 1
  /\ SERVICE_PREFIX \o "x" \in manager.container

\* C25: every chain of the manager has its monitoring flag equal to the
\* manager's current setting, whatever options the manager was made with:
\* switching applies to all existing chains, and a chain created later
\* starts with the setting current at its creation.
C25_MonitoringFollowsManager ==
  \A i \in 1..getChainCount(manager) :
    chains[manager.chains[i].chain].enableStats = manager.enablePerformanceMonitoring

\* two chains have the monitoring on, one of them made after a dispose and
\* after the monitoring was switched on
C25_Witness ==
  /\ manager.enablePerformanceMonitoring
  /\ getChainCount(manager) = 2
  /\ manager.chains[2].chain > 3
  /\ chains[manager.chains[1].chain].enableStats
  /\ chains[manager.chains[2].chain].enableStats
  /\ ~chains[2].enableStats

RegisteringError == ret'.op = "registerError"

ErrorNamesIn(m, heap, chainName) ==
  IF chainsGet(m, chainName) = 0 THEN <<>>
  ELSE NameList(heap[chainsGet(m, chainName)].errorMiddlewares)

\* C26: registerError adds the error handler at the end of the error list of
\* the chain it names, making the chain if there is none, and leaves the
\* definition table alone (has, list and getMiddlewareCount answer as
\* before); it raises, and changes nothing, only when that chain's error
\* list holds the name already, whatever the names of normal handlers and of
\* the error handlers of other chains.
C26_RegisterError ==
  [][RegisteringError =>
       LET before == ErrorNamesIn(manager, chains, ret'.target)
           taken == \E i \in 1..Len(before) : before[i] = ret'.name
       IN /\ manager'.definitions = manager.definitions
          /\ getMiddlewareCount(manager') = getMiddlewareCount(manager)
          /\ taken => ret'.result = "duplicate" /\ manager' = manager /\ chains' = chains
          /\ ~taken =>
               /\ ret'.result = "ok"
               /\ ErrorNamesIn(manager', chains', ret'.target) = Append(before, ret'.name)
               /\ listByChain(manager', chains', ret'.target)
                    = listByChain(manager, chains, ret'.target)
               /\ \A k \in 1..Len(chains) :
                    k # chainsGet(manager, ret'.target) => chains'[k] = chains[k]]_vars

\* the error handler "a" was registered in the chain "x", made for it, while
\* the chain "default" holds an error handler "a" and the normal handler "a"
C26_Witness ==
  /\ ret.op = "registerError"
  /\ ret.result = "ok"
  /\ ret.target = "x"
  /\ ErrorNamesIn(manager, chains, "x") = <<"a">>
  /\ listByChain(manager, chains, "x") = <<>>
  /\ ErrorNamesIn(manager, chains, DefaultChain) = <<"a">>
  /\ listByChain(manager, chains, DefaultChain) = <<"a">>
  /\ getMiddlewareCount(manager) = 1

\* the manager that differs in the continueOnError option only
OtherManager == [manager EXCEPT !.continueOnError = ~@]

SameOutcome(mine, other) ==
  /\ mine.heap = other.heap
  /\ mine.result = other.result
  /\ [mine.manager EXCEPT !.continueOnError = ~@] = other.manager

ThrewIn(c) == \E i \in 1..Len(log) : log[i].call = c /\ log[i].ev = "throw"

C28_MatchConditionRepeatable ==
  /\ \A i \in 1..Len(chains[1].middlewares) :
       IsDefined(chains[1].middlewares[i].condition) =>
         chains[1].middlewares[i].condition[1] \in Conditions
  /\ \A c, d \in 1..Len(calls) :
       calls[c].ctx = calls[d].ctx =>
         NameList(calls[c].matchedMiddlewares) = NameList(calls[d].matchedMiddlewares)

\* the activations of next that invoked a normal handler, in order
Invoked(call) == SelectSeq(call.frames, LAMBDA frame : frame.kind = "next")

\* C29: in one execute call the cursor only moves forward and every matched
\* handler is invoked at most once: the k-th invocation is that of the k-th
\* matched handler, and a call of next(), the first of a handler or a
\* further one, invokes the handler after the last one invoked or nothing.
C29_CursorForward ==
  [][\A c \in 1..Len(calls) :
       /\ Len(Invoked(calls[c])) = calls[c].index
       /\ calls[c].index <= Len(calls[c].matchedMiddlewares)
       /\ \A k \in 1..calls[c].index :
            Invoked(calls[c])[k].name = calls[c].matchedMiddlewares[k].name
       /\ calls'[c].index \in {calls[c].index, calls[c].index + 1}
       /\ calls'[c].matchedMiddlewares = calls[c].matchedMiddlewares
       /\ Len(calls'[c].frames) >= Len(calls[c].frames)
       /\ \A i \in 1..Len(calls[c].frames) :
            /\ calls'[c].frames[i].kind = calls[c].frames[i].kind
            /\ calls'[c].frames[i].name = calls[c].frames[i].name]_vars

\* a handler called next() twice: the first call invoked the second handler,
\* the further call the third, and the call is over
C29_Witness ==
  /\ Len(calls) = 1
  /\ calls[1].state = "resolved"
  /\ Len(calls[1].matchedMiddlewares) = 3
  /\ calls[1].matchedMiddlewares[1].middleware.beh = "twice"
  /\ calls[1].index = 3
  /\ calls[1].frames[2].parent = 1
  /\ calls[1].frames[3].parent = 1
  /\ InvokedNames(log, 1) = NameList(calls[1].matchedMiddlewares)

\* the pairs of an activation and the activation it invoked through next()
\* whose handler threw
ThrewUnder(c) ==
  {fg \in (1..Len(calls[c].frames)) \X (1..Len(calls[c].frames)) :
     /\ calls[c].frames[fg[2]].kind = "next"
     /\ calls[c].frames[fg[2]].parent = fg[1]
     /\ calls[c].frames[fg[2]].caught}

NoErrorHandlerThrows(c) ==
  \A i \in 1..Len(ChainOf(c).errorMiddlewares) :
    ChainOf(c).errorMiddlewares[i].middleware.beh # "errThrow"

\* C30: when a handler invoked through next() throws and the chain has error
\* handlers none of which throws, the error handlers run while the upstream
\* handler is still awaiting, its next() then resolves and its code after
\* next() runs; with no error handler its next() rejects with the error.
C30_HandledDownstream ==
  \A c \in 1..Len(calls) : \A fg \in ThrewUnder(c) :
    LET up == calls[c].frames[fg[1]]
        down == calls[c].frames[fg[2]]
        later == Later(c, fg[2])
    IN /\ (ChainOf(c).errorMiddlewares # <<>> /\ NoErrorHandlerThrows(c)) =>
            /\ down.state \in {"handling", "resolved"}
            /\ down.state = "handling" => up.state = "awaiting" /\ up.child = fg[2]
            /\ down.state = "resolved" => Has(later, {"invokeError"})
            /\ \A j \in 1..Len(later) :
                 (later[j].ev = "after" /\ later[j].name = up.name) =>
                   \E i \in 1..(j - 1) : later[i].ev = "invokeError"
            /\ up.caught =>
                 \E j \in 1..Len(later) : later[j].ev = "throw" /\ later[j].name = up.name
            /\ (Settled(c) /\ up.middleware.beh = "pass") =>
                 /\ calls[c].state = "resolved"
                 /\ \E j \in 1..Len(later) : later[j].ev = "after" /\ later[j].name = up.name
       /\ ChainOf(c).errorMiddlewares = <<>> =>
            /\ down.state = "rejected"
            /\ down.error.isError
            /\ \/ up.state = "awaiting" /\ up.child = fg[2]
               \/ up.state \in {"threw", "rejected"} /\ up.error = down.error
            /\ \A j \in 1..Len(later) : later[j].name = up.name => later[j].ev # "after"
            /\ Settled(c) => calls[c].state = "rejected" /\ calls[c].error = down.error

\* the second handler threw under a handler awaiting next(), an error handler
\* took the error, and the first handler went on after its next()
C30_Witness ==
  \E c \in 1..Len(calls) : \E fg \in ThrewUnder(c) :
    /\ calls[c].state = "resolved"
    /\ calls[c].frames[fg[1]].middleware.beh = "pass"
    /\ ChainOf(c).errorMiddlewares # <<>>
    /\ \E j \in 1..Len(Later(c, fg[2])) :
         /\ Later(c, fg[2])[j].ev = "after"
         /\ Later(c, fg[2])[j].name = calls[c].frames[fg[1]].name

\* the activations of error handlers that the h-th handleError of call c made,
\* in the order they were made
ErrorFramesOf(c, h) ==
  SelectSeq([f \in 1..Len(calls[c].frames) |-> f],
            LAMBDA f : /\ calls[c].frames[f].kind = "errorNext"
                       /\ calls[c].frames[f].handler = h)

\* the error handler of activation f is past its await next()
PastNext(c, f) ==
  /\ "next" \in {Script(calls[c].frames[f].middleware.beh)[i] :
                   i \in 1..Len(Script(calls[c].frames[f].middleware.beh))}
  /\ \/ calls[c].frames[f].state \in {"awaiting", "returned", "resolved"}
     \/ /\ calls[c].frames[f].state = "running"
        /\ calls[c].frames[f].pc > Len(Script(calls[c].frames[f].middleware.beh))

\* C31: error handlers run in registration order through next(): the k-th
\* error handler a handleError invokes is the k-th registered one, the first
\* is invoked by the catch and each following one by the next() of the one
\* before it, and an error handler whose next() ran has a successor invoked
\* whenever one is registered, whether or not ctx.error is set.
C31_ErrorHandlersInOrder ==
  \A c \in 1..Len(calls) : \A h \in 1..Len(calls[c].handlers) :
    LET made == ErrorFramesOf(c, h)
        list == ChainOf(c).errorMiddlewares
    IN /\ Len(made) <= Len(list)
       /\ \A k \in 1..Len(made) :
            LET frame == calls[c].frames[made[k]]
            IN /\ frame.name = list[k].name
               /\ IF k = 1
                    THEN calls[c].frames[frame.parent].kind = "next"
                    ELSE /\ frame.parent = made[k - 1]
                         /\ PastNext(c, made[k - 1])
               /\ (PastNext(c, made[k]) /\ k < Len(list)) => k < Len(made)

\* ctx.error was set before the second error handler was invoked
C31_Witness ==
  \E c \in 1..Len(calls) : \E h \in 1..Len(calls[c].handlers) :
    /\ Len(ErrorFramesOf(c, h)) >= 2
    /\ calls[c].state = "resolved"
    /\ \E i, j \in 1..Len(log) :
         /\ i < j
         /\ log[i].ev = "setError"
         /\ log[j].ev = "invokeError"
         /\ log[j].name = ChainOf(c).errorMiddlewares[2].name

\* C32: when every handler and error handler invocation returns or throws,
\* every execute call that was started settles, however often the handlers
\* call next() and whether or not errors are thrown and handled at several
\* levels.
C32_ExecuteSettles ==
  \A c \in 1..MaxCalls :
    (Len(calls) >= c) ~> (Len(calls) >= c /\ Settled(c))

\* a call settled after errors were handled at two levels: a handler threw
\* after the error of the handler behind it had been handled
C32_Witness ==
  \E c \in 1..Len(calls) :
    /\ Settled(c)
    /\ Len(calls[c].handlers) >= 2
    /\ \E f \in 1..Len(calls[c].frames) : calls[c].frames[f].middleware.beh = "twice"

\* the invocations of the handlers invoked through the next() of invocation cf
Downstream(cf) ==
  {dg \in UNION {Invocations(name) : name \in {"a", "b"}} :
     /\ dg[1] = cf[1]
     /\ InvocationAt(dg).parent = cf[2]}

\* C33: with the monitoring on throughout, every invocation of a handler is
\* recorded once: count is the number of invocations that returned plus the
\* number that threw, errorCount the number that threw, and totalTime the sum
\* of the durations of those that returned (a throw adds 0); a handler whose
\* awaited next() rejected is recorded as one that threw, and a handler that
\* returns after the error behind it was taken by the error handlers is
\* recorded as one that returned.
C33_RecordedOnce ==
  \A name \in {"a", "b"} :
    /\ Completed(name) \cap Thrown(name) = {}
    /\ Cardinality(Completed(name)) + Cardinality(Thrown(name)) > 0 =>
         /\ FindIndex(chains[1].stats, name) # 0
         /\ StatsOf(name).count = Cardinality(Completed(name)) + Cardinality(Thrown(name))
         /\ StatsOf(name).errorCount = Cardinality(Thrown(name))
         /\ StatsOf(name).totalTime = SumOfDurations(Completed(name))
    /\ \A cf \in Invocations(name) :
         /\ InvocationAt(cf).state \in {"resolved", "rejected"} =>
              (cf \in Completed(name) \/ cf \in Thrown(name))
         /\ \A dg \in Downstream(cf) :
              /\ ( /\ InvocationAt(dg).state = "rejected"
                   /\ InvocationAt(cf).state \in {"resolved", "rejected"} ) =>
                   cf \in Thrown(name)
              /\ ( /\ InvocationAt(dg).state = "resolved"
                   /\ InvocationAt(cf).state \in {"resolved", "rejected"} ) =>
                   cf \in Completed(name)

\* the handler "a" awaited the next() that invoked "b", "b" threw with no
\* error handler, and "a" is recorded with one error
C33_Witness ==
  /\ chains[1].errorMiddlewares = <<>>
  /\ FindIndex(chains[1].stats, "a") # 0
  /\ StatsOf("a").errorCount = 1
  /\ StatsOf("a").count = 1
  /\ \E cf \in Thrown("a") : \E dg \in Downstream(cf) :
       /\ InvocationAt(dg).name = "b"
       /\ InvocationAt(dg).state = "rejected"

Timing(c, f) ==
  /\ calls[c].frames[f].kind = "next"
  /\ calls[c].frames[f].duration = Undefined
  /\ calls'[c].frames[f].duration # Undefined

TotalTime(stats, name) ==
  IF FindIndex(stats, name) = 0 THEN 0 ELSE stats[FindIndex(stats, name)].totalTime

\* C35: the duration added to a handler's stats for an invocation is at most
\* the time between the start and the end of that invocation, also when the
\* monitoring was switched on or off while the invocation was in flight.
C35_DurationWithinElapsed ==
  [][\A c \in 1..Len(calls) : \A f \in 1..Len(calls[c].frames) :
       Timing(c, f) =>
         /\ TotalTime(chains'[calls[c].chain].stats, calls[c].frames[f].name)
              - TotalTime(chains[calls[c].chain].stats, calls[c].frames[f].name)
              = calls'[c].frames[f].duration[1]
         /\ calls'[c].frames[f].duration[1] <= now - calls[c].frames[f].entered]_vars

\* C36: every stats entry of a chain has count >= 1, 0 <= errorCount <= count,
\* minTime <= maxTime, count * minTime <= totalTime <= count * maxTime and
\* averageTime = totalTime / count.
C36_StatsEntry ==
  \A k \in 1..Len(chains) : \A i \in 1..Len(chains[k].stats) :
    LET entry == chains[k].stats[i]
    IN /\ entry.count >= 1
       /\ 0 <= entry.errorCount
       /\ entry.errorCount <= entry.count
       /\ entry.minTime # Undefined
       /\ entry.minTime[1] <= entry.maxTime
       /\ entry.count * entry.minTime[1] <= entry.totalTime
       /\ entry.totalTime <= entry.count * entry.maxTime
       /\ SameRatio(entry.averageTime, Ratio(entry.totalTime, entry.count))

\* an entry of two invocations of different durations next to an entry of
\* invocations that threw
C36_Witness ==
  \E i, j \in 1..Len(chains[1].stats) :
    /\ chains[1].stats[i].count >= 2
    /\ chains[1].stats[i].minTime[1] < chains[1].stats[i].maxTime
    /\ chains[1].stats[j].errorCount >= 1

\* the handler names of the chain called chainName, none when the manager m
\* has no such chain
HandlerList(m, heap, chainName) ==
  IF chainsGet(m, chainName) = 0 THEN <<>>
  ELSE NameList(heap[chainsGet(m, chainName)].middlewares)

RECURSIVE RegisteredOf(_, _)
RegisteredOf(held, sorted) ==
  IF sorted = <<>> \/ Head(sorted).name \in held THEN <<>>
  ELSE <<Head(sorted)>> \o RegisteredOf(held \cup {Head(sorted).name}, Tail(sorted))

\* what registerAll(batch) is to leave of manager m and chains heap
PartlyRegistered(batch, m, heap, m2, heap2, result) ==
  LET kept == RegisteredOf(Names(m.definitions), sortByPriority(batch))
  IN /\ result = IF Len(kept) = Len(batch) THEN "ok" ELSE "duplicate"
     /\ NameList(m2.definitions) = NameList(m.definitions) \o NameList(kept)
     /\ \A chainName \in ManagerChainNames :
          HandlerList(m2, heap2, chainName)
            = HandlerList(m, heap, chainName)
                \o NameList(SelectSeq(kept, LAMBDA d : chainOf(d) = chainName))

\* C38: registerAll is not atomic: when a definition of the batch raises the
\* duplicate-name error, the definitions sorted before it stay registered,
\* in the definition table and in their chains, it and those sorted after it
\* are not registered, and the error reaches the caller.
C38_RegisterAllStopsAtDuplicate ==
  [][ret'.op = "registerAll" =>
       \A first \in Definitions, second \in Definitions :
         ( /\ first.name = ret'.name
           /\ second.name = ret'.target
           /\ manager' = registerAll(manager, chains, <<first, second>>).manager
           /\ chains' = registerAll(manager, chains, <<first, second>>).heap
           /\ ret'.result = registerAll(manager, chains, <<first, second>>).result ) =>
           PartlyRegistered(<<first, second>>, manager, chains, manager', chains', ret'.result)]_vars

\* registerAll raised the duplicate-name error on a manager that held one
\* definition, and left a second one registered
C38_Witness ==
  /\ ret.op = "registerAll"
  /\ ret.result = "duplicate"
  /\ Len(manager.definitions) = 2
  /\ \E chainName \in ManagerChainNames :
       manager.definitions[2].name \in HeldBy(chainName)

\* C39: use(handler, name), a handler followed by a string and no third
\* argument, registers the handler under that name with no condition:
\* hasMiddleware(name) is true afterwards, and the handler takes part in every
\* execute whatever ctx.path is.
C39_UseHandlerName ==
  /\ chains[1].middlewares # <<>> => HandlerName \in Names(chains[1].middlewares)
  /\ \A i \in 1..Len(chains[1].middlewares) :
       chains[1].middlewares[i].condition = Undefined
  /\ \A c \in 1..Len(calls) :
       NameList(calls[c].matchedMiddlewares) = NameList(chains[1].middlewares)

\* the generated name of the next handler of a list
Positional(prefix, list) == prefix \o ToString(Len(list))

\* C40: with no name argument and no function name, use, insertBefore and
\* insertAfter name the handler "middleware-<k>", k being the number of normal
\* handlers registered at that moment, and useError names it
\* "error-middleware-<k>" from the number of error handlers; the registration
\* raises the duplicate-name error exactly when that name is held, and adds
\* the handler under that name otherwise; an insert whose target is not
\* registered returns false before any name is made.
C40_PositionalName ==
  [][LET old == chains[1].middlewares
         new == chains'[1].middlewares
         oldErrors == chains[1].errorMiddlewares
         newErrors == chains'[1].errorMiddlewares
     IN /\ ret'.op = "use" =>
             /\ ret'.name = Positional("middleware-", old)
             /\ ret'.result = IF ret'.name \in Names(old) THEN "duplicate" ELSE "ok"
             /\ NameList(new) = IF ret'.name \in Names(old)
                                  THEN NameList(old)
                                  ELSE Append(NameList(old), ret'.name)
        /\ ret'.op = "useError" =>
             /\ ret'.name = Positional("error-middleware-", oldErrors)
             /\ ret'.result = IF ret'.name \in Names(oldErrors) THEN "duplicate" ELSE "ok"
             /\ NameList(newErrors) = IF ret'.name \in Names(oldErrors)
                                        THEN NameList(oldErrors)
                                        ELSE Append(NameList(oldErrors), ret'.name)
        /\ (ret'.op \in {"insertBefore", "insertAfter"} /\ ret'.target \in Names(old)) =>
             /\ ret'.name = Positional("middleware-", old)
             /\ ret'.result = IF ret'.name \in Names(old) THEN "duplicate" ELSE "true"
             /\ Names(new) = Names(old) \cup {ret'.name}
             /\ Len(new) = IF ret'.name \in Names(old) THEN Len(old) ELSE Len(old) + 1
        /\ (ret'.op \in {"insertBefore", "insertAfter"} /\ ret'.target \notin Names(old)) =>
             /\ ret'.result = "false"
             /\ new = old]_vars

\* after use, use, remove("middleware-0") the chain holds "middleware-1" only,
\* and the next use made the name "middleware-1" again and raised the error
C40_Witness ==
  /\ ret.op = "use"
  /\ ret.result = "duplicate"
  /\ ret.name = "middleware-1"
  /\ NameList(chains[1].middlewares) = <<"middleware-1">>

====
